---- MODULE Spec2Model ----
(***************************************************************************)
(* A model of containuum: the refresh gate (three timers), the dedup       *)
(* cursor, the reconnect supervisor, the filter algebra and the FNV-1a     *)
(* structural hash.                                                        *)
(*                                                                         *)
(* Strings are sequences of bytes (0..255).  A 64-bit digest is a sequence *)
(* of 8 bytes, least significant first, so that every product and sum      *)
(* stays far below 2^31.  Time is counted in ticks; a timer is the number  *)
(* of ticks left until it fires, or Stopped.  The control flow does not    *)
(* let time pass while one of its select cases is ready.  A gather is     *)
(* several steps: the case is taken, ContainerList, one ContainerInspect   *)
(* for every identity listed, the dedup with the callback, and the timer   *)
(* updates of the case; the client, the caller and, as far as the timing   *)
(* allows, the clock act in between.                                       *)
(***************************************************************************)
EXTENDS Integers, Sequences, FiniteSets

----------------------------------------------------------------------------
(* Bytes and 64-bit words                                                  *)

RECURSIVE BitXor(_, _)
BitXor(a, b) ==
  IF a = 0 THEN b
  ELSE IF b = 0 THEN a
  ELSE (((a % 2) + (b % 2)) % 2) + (2 * BitXor(a \div 2, b \div 2))

\* x ^ y on uint64 (an operand is bound by a set of one element so that it
\* is evaluated once)
Xor64(x, y) ==
  CHOOSE r \in {<<BitXor(a[1], b[1]), BitXor(a[2], b[2]), BitXor(a[3], b[3]),
                  BitXor(a[4], b[4]), BitXor(a[5], b[5]), BitXor(a[6], b[6]),
                  BitXor(a[7], b[7]), BitXor(a[8], b[8])>> : a \in {x}, b \in {y}} : TRUE

Zero64 == <<0, 0, 0, 0, 0, 0, 0, 0>>

\* binary.Write(h, binary.LittleEndian, uint16)
LE16(n) == <<n % 256, n \div 256>>

\* hash/fnv: offset64 = 0xcbf29ce484222325
offset64 == <<37, 35, 34, 132, 228, 156, 242, 203>>

\* hash/fnv: prime64 = 0x100000001b3 = 2^40 + 435; the low part
prime64lo == 435

\* the carries of a sequence of 8 column sums, reduced mod 2^64
RECURSIVE Carry(_, _, _)
Carry(cols, i, c) ==
  IF i > 8 THEN <<>>
  ELSE <<(cols[i] + c) % 256>> \o Carry(cols, i + 1, (cols[i] + c) \div 256)

\* h * prime64 mod 2^64
MulPrime(h) ==
  CHOOSE r \in {Carry([i \in 1..8 |-> (x[i] * prime64lo) + (IF i > 5 THEN x[i - 5] ELSE 0)],
                      1, 0) : x \in {h}} : TRUE

\* hash ^= byte; hash *= prime64
mix(h, byte) ==
  CHOOSE r \in {MulPrime([x EXCEPT ![1] = BitXor(x[1], b)]) : x \in {h}, b \in {byte}} : TRUE

\* the bytes of b from the i-th on, written to h
RECURSIVE writeFrom(_, _, _)
writeFrom(h, b, i) ==
  IF i > Len(b) THEN h
  ELSE CHOOSE r \in {writeFrom(next, b, i + 1) : next \in {mix(h, b[i])}} : TRUE

\* fnv.New64a().Write: for each byte, hash ^= byte; hash *= prime64
fnvWrite(h, bytes) == CHOOSE r \in {writeFrom(h, b, 1) : b \in {bytes}} : TRUE

----------------------------------------------------------------------------
(* Go values                                                               *)

\* A slice or a map: nil, or a value v (a sequence; for a map a function
\* from keys to values).  len() of either kind of nil is 0.
GoNil == [nil |-> TRUE, v |-> <<>>]
Mk(v) == [nil |-> FALSE, v |-> v]
len(x) == IF x.nil THEN 0 ELSE IF DOMAIN x.v = {} THEN 0 ELSE Cardinality(DOMAIN x.v)

\* a < b on Go strings (bytewise)
RECURSIVE StrLess(_, _)
StrLess(a, b) ==
  IF a = <<>> THEN b # <<>>
  ELSE IF b = <<>> THEN FALSE
  ELSE IF a[1] # b[1] THEN a[1] < b[1]
  ELSE StrLess(Tail(a), Tail(b))

RECURSIVE InsertSorted(_, _)
InsertSorted(x, s) ==
  IF s = <<>> THEN <<x>>
  ELSE IF StrLess(s[1], x) THEN <<s[1]>> \o InsertSorted(x, Tail(s))
  ELSE <<x>> \o s

\* sort.Strings on a slice
RECURSIVE sortStrings(_)
sortStrings(s) ==
  IF s = <<>> THEN <<>> ELSE InsertSorted(Head(s), sortStrings(Tail(s)))

\* the keys of a map in one order: Go's range visits them in an order it
\* does not specify, Run's own calls are modelled with this one
RECURSIVE sortedKeys(_)
sortedKeys(S) ==
  IF S = {} THEN <<>>
  ELSE LET m == CHOOSE x \in S : \A y \in S \ {x} : StrLess(x, y)
       IN  <<m>> \o sortedKeys(S \ {m})

\* the errors; a wrapped error (fmt.Errorf with %w) keeps its cause
NilErr == [msg |-> "nil", cause |-> "nil"]
Err(m) == [msg |-> m, cause |-> "nil"]
Wrap(m, e) == [msg |-> m, cause |-> e.msg]
Canceled == Err("context canceled")

----------------------------------------------------------------------------
(* Structural hash                                                         *)

\* Port.hash
PortHash(port) ==
  CHOOSE r \in
    {LET h1 == fnvWrite(offset64, p.HostIP)
         h2 == fnvWrite(h1, LE16(p.HostPort))
         h3 == fnvWrite(h2, LE16(p.ContainerPort))
     IN  fnvWrite(h3, p.Protocol) : p \in {port}} : TRUE

\* h.Write([]byte(s)) for each s of strs, from the i-th on
RECURSIVE writeAll(_, _, _)
writeAll(h, strs, i) ==
  IF i > Len(strs) THEN h
  ELSE CHOOSE r \in {writeAll(next, strs, i + 1) : next \in {fnvWrite(h, strs[i])}} : TRUE

\* a variant of Network.hash that tests Aliases against nil, and writes
\* how many there are
NetworkHashOfNonNil(network) ==
  CHOOSE r \in
    {LET h1 == writeAll(offset64,
                        <<n.Name, n.ID, n.IPAddress, n.IP6Address, n.Gateway>>, 1)
     IN  IF ~n.Aliases.nil
         THEN writeAll(fnvWrite(h1, LE16(len(n.Aliases))), sortStrings(n.Aliases.v), 1)
         ELSE h1 : n \in {network}} : TRUE

\* Network.hash
NetworkHash(network) ==
  CHOOSE r \in
    {LET h1 == writeAll(offset64,
                        <<n.Name, n.ID, n.IPAddress, n.IP6Address, n.Gateway>>, 1)
     IN  IF len(n.Aliases) > 0
         THEN CHOOSE r2 \in {writeAll(h1, aliases, 1) :
                               aliases \in {sortStrings(n.Aliases.v)}} : TRUE
         ELSE h1 : n \in {network}} : TRUE

\* h.Write([]byte(k)); h.Write([]byte(c.Labels[k])) for each k of keys, from
\* the i-th on
RECURSIVE writeLabels(_, _, _, _)
writeLabels(h, keys, labels, i) ==
  IF i > Len(keys) THEN h
  ELSE CHOOSE r \in {writeLabels(next, keys, labels, i + 1) :
                       next \in {fnvWrite(fnvWrite(h, keys[i]), labels[keys[i]])}} : TRUE

\* networksHash ^= n.hash() for each n of ns, from the i-th on
RECURSIVE xorNetworks(_, _, _)
xorNetworks(acc, ns, i) ==
  IF i > Len(ns) THEN acc
  ELSE CHOOSE r \in {xorNetworks(next, ns, i + 1) :
                       next \in {Xor64(acc, NetworkHash(ns[i]))}} : TRUE

\* portsHash ^= p.hash() for each p of ps, from the i-th on
RECURSIVE xorPorts(_, _, _)
xorPorts(acc, ps, i) ==
  IF i > Len(ps) THEN acc
  ELSE CHOOSE r \in {xorPorts(next, ps, i + 1) :
                       next \in {Xor64(acc, PortHash(ps[i]))}} : TRUE

\* a variant of Container.hash that writes the labels in the order in which
\* the range loop visited them
hashVisitingUnsorted(container, visit) ==
  CHOOSE r \in
    {LET h1 == writeAll(offset64, <<c.ID, c.Name, c.Image, c.State>>, 1)
         h2 == IF len(c.Labels) > 0 THEN writeLabels(h1, visit, c.Labels.v, 1) ELSE h1
         h3 == fnvWrite(h2, xorNetworks(Zero64, c.Networks.v, 1))
     IN  fnvWrite(h3, xorPorts(Zero64, c.Ports.v, 1)) : c \in {container}} : TRUE

\* Container.hash, the loop `for k := range c.Labels` visiting the keys in
\* the order visit: keys = append(keys, k), then sort.Strings(keys)
hashVisiting(container, visit) ==
  CHOOSE r \in
    {LET h1 == writeAll(offset64, <<c.ID, c.Name, c.Image, c.State>>, 1)
         h2 == IF len(c.Labels) > 0
               THEN CHOOSE r2 \in {writeLabels(h1, keys, c.Labels.v, 1) :
                                     keys \in {sortStrings(visit)}} : TRUE
               ELSE h1
         networksHash == xorNetworks(Zero64, c.Networks.v, 1)
         h3 == fnvWrite(h2, networksHash)
         portsHash == xorPorts(Zero64, c.Ports.v, 1)
     IN  fnvWrite(h3, portsHash) : c \in {container}} : TRUE

\* Container.hash
ContainerHash(container) == hashVisiting(container, sortedKeys(DOMAIN container.Labels.v))

\* combined ^= c.hash() for each c of cs, from the i-th on
RECURSIVE xorContainers(_, _, _)
xorContainers(acc, cs, i) ==
  IF i > Len(cs) THEN acc
  ELSE CHOOSE r \in {xorContainers(next, cs, i + 1) :
                       next \in {Xor64(acc, ContainerHash(cs[i]))}} : TRUE

\* computeHash
computeHash(containers) ==
  CHOOSE r \in {xorContainers(Zero64, cs, 1) : cs \in {containers}} : TRUE

----------------------------------------------------------------------------
(* Filter algebra: a filter is the closure the constructor returns, kept   *)
(* as a record; Apply calls it.                                            *)

All(filters) == [op |-> "All", args |-> filters]
Any(filters) == [op |-> "Any", args |-> filters]
Not(filter) == [op |-> "Not", args |-> <<filter>>]
LabelExists(key) == [op |-> "LabelExists", key |-> key]
LabelEquals(key, value) == [op |-> "LabelEquals", key |-> key, value |-> value]
StateEquals(state) == [op |-> "StateEquals", state |-> state]
\* monitor.filter == nil
NilFilter == [op |-> "nil"]

\* c.Labels[key]: the zero value "" when the key is absent
labelAt(c, key) ==
  IF (~c.Labels.nil) /\ key \in DOMAIN c.Labels.v THEN c.Labels.v[key] ELSE <<>>

RECURSIVE Apply(_, _)

\* a variant of the loop of All that stops at the first filter that accepts
RECURSIVE allFromStopsAtTrue(_, _, _)
allFromStopsAtTrue(filters, c, i) ==
  IF i > Len(filters) THEN TRUE
  ELSE IF Apply(filters[i], c) THEN TRUE
  ELSE FALSE

\* the loop of All over the filters from the i-th on: false at the first
\* filter that rejects, true at the end
RECURSIVE allFrom(_, _, _)
allFrom(filters, c, i) ==
  IF i > Len(filters) THEN TRUE
  ELSE IF ~Apply(filters[i], c) THEN FALSE
  ELSE allFrom(filters, c, i + 1)

\* the loop of Any over the filters from the i-th on: true at the first
\* filter that accepts, false at the end
RECURSIVE anyFrom(_, _, _)
anyFrom(filters, c, i) ==
  IF i > Len(filters) THEN FALSE
  ELSE IF Apply(filters[i], c) THEN TRUE
  ELSE anyFrom(filters, c, i + 1)

\* filter(c)
Apply(f, c) ==
  CASE f.op = "All" -> allFrom(f.args, c, 1)
    [] f.op = "Any" -> anyFrom(f.args, c, 1)
    [] f.op = "Not" -> ~Apply(f.args[1], c)
    [] f.op = "LabelExists" -> (~c.Labels.nil) /\ f.key \in DOMAIN c.Labels.v
    [] f.op = "LabelEquals" -> labelAt(c, f.key) = f.value
    [] f.op = "StateEquals" -> c.State = f.state

----------------------------------------------------------------------------
(* Pull: list, inspect, convert, filter                                    *)

\* strings.TrimPrefix(s, "/")
TrimPrefix(s) == IF s # <<>> /\ s[1] = 47 THEN Tail(s) ELSE s

\* strings.Split(s, "/") from the i-th byte on, cur being the part read so far
RECURSIVE splitFrom(_, _, _)
splitFrom(s, cur, i) ==
  IF i > Len(s) THEN <<cur>>
  ELSE IF s[i] = 47 THEN <<cur>> \o splitFrom(s, <<>>, i + 1)
  ELSE splitFrom(s, Append(cur, s[i]), i + 1)

Split(str) == CHOOSE r \in {splitFrom(s, <<>>, 1) : s \in {str}} : TRUE

\* strconv.ParseUint(s, 10, 16) from the i-th byte on: ok is FALSE on a
\* syntax or range error
RECURSIVE parseDigits(_, _, _)
parseDigits(s, acc, i) ==
  IF i > Len(s) THEN [ok |-> TRUE, n |-> acc]
  ELSE IF s[i] < 48 \/ s[i] > 57 THEN [ok |-> FALSE, n |-> 0]
  ELSE IF (acc * 10) + (s[i] - 48) > 65535 THEN [ok |-> FALSE, n |-> 65535]
  ELSE parseDigits(s, (acc * 10) + (s[i] - 48), i + 1)

ParseUint(str) ==
  CHOOSE r \in {IF s = <<>> THEN [ok |-> FALSE, n |-> 0] ELSE parseDigits(s, 0, 1) :
                  s \in {str}} : TRUE

\* append(slice, elems...): appending to a nil slice gives a non-nil one
appendAll(slice, elems) == IF elems = <<>> THEN slice ELSE Mk(slice.v \o elems)

\* the Network of one entry of NetworkSettings.Networks
convertNetwork(entry) ==
  [Name |-> entry.name, ID |-> entry.NetworkID, IPAddress |-> entry.IPAddress,
   IP6Address |-> entry.GlobalIPv6Address, Gateway |-> entry.Gateway,
   Aliases |-> entry.Aliases]

\* the Ports of the bindings of one port, from the i-th on: a binding whose
\* host port does not parse is skipped
RECURSIVE convertBindings(_, _, _, _)
convertBindings(bindings, containerPort, proto, i) ==
  IF i > Len(bindings) THEN <<>>
  ELSE CHOOSE r \in
         {(IF hp.ok
           THEN <<[HostIP |-> bindings[i].HostIP, HostPort |-> hp.n,
                   ContainerPort |-> containerPort, Protocol |-> proto]>>
           ELSE <<>>) \o convertBindings(bindings, containerPort, proto, i + 1) :
            hp \in {ParseUint(bindings[i].HostPort)}} : TRUE

\* the Ports of one entry of NetworkSettings.Ports
convertPort(entry) ==
  CHOOSE r \in
    {IF Len(parts) # 2 THEN <<>>
     ELSE CHOOSE r2 \in
            {IF cp.ok THEN convertBindings(entry.bindings, cp.n, parts[2], 1) ELSE <<>> :
               cp \in {ParseUint(parts[1])}} : TRUE :
       parts \in {Split(entry.portProto)}} : TRUE

\* the Ports of the entries from the i-th on
RECURSIVE convertPorts(_, _)
convertPorts(entries, i) ==
  IF i > Len(entries) THEN <<>> ELSE convertPort(entries[i]) \o convertPorts(entries, i + 1)

\* the Networks of the entries from the i-th on
RECURSIVE convertNetworks(_, _)
convertNetworks(entries, i) ==
  IF i > Len(entries) THEN <<>>
  ELSE <<convertNetwork(entries[i])>> \o convertNetworks(entries, i + 1)

\* convertContainer; the maps of NetworkSettings are given as the sequence
\* of their entries in the order the range loop visits them
convertContainer(inspect) ==
  CHOOSE r \in
    {[ID |-> info.ID,
      Name |-> TrimPrefix(info.Name),
      Image |-> info.Image,
      State |-> info.Status,
      Labels |-> info.Labels,
      Networks |-> IF info.NetworkSettings.nil THEN GoNil
                   ELSE appendAll(GoNil, convertNetworks(info.NetworkSettings.Networks, 1)),
      Ports |-> IF info.NetworkSettings.nil THEN GoNil
                ELSE appendAll(GoNil, convertPorts(info.NetworkSettings.Ports, 1))] :
       info \in {inspect}} : TRUE

\* mockDockerClient.ContainerList: (summaries, err)
ContainerList(client) ==
  IF client.listErr # NilErr THEN [summaries |-> <<>>, err |-> client.listErr]
  ELSE [summaries |-> client.summaries, err |-> NilErr]

\* mockDockerClient.ContainerInspect: (inspect, err)
ContainerInspect(client, id) ==
  IF id \in client.inspectErr THEN [err |-> Err("inspect failed"), inspect |-> <<>>]
  ELSE IF id \in DOMAIN client.inspects
  THEN [err |-> NilErr, inspect |-> client.inspects[id]]
  ELSE [err |-> Err("container not found"), inspect |-> <<>>]

\* a variant of gatherStep that puts each accepted container in front
gatherStepPrepends(r, filter, containers) ==
  IF r.err # NilErr THEN containers
  ELSE CHOOSE out \in
         {IF filter = NilFilter \/ Apply(filter, c) THEN <<c>> \o containers
          ELSE containers : c \in {convertContainer(r.inspect)}} : TRUE

\* a variant of gatherStep that keeps what the filter rejects
gatherStepKeepsAll(r, filter, containers) ==
  IF r.err # NilErr THEN containers
  ELSE Append(containers, convertContainer(r.inspect))

\* one turn of the loop of gatherContainers, r being what ContainerInspect
\* returned: a container whose inspection fails is skipped
gatherStep(r, filter, containers) ==
  IF r.err # NilErr THEN containers
  ELSE CHOOSE out \in
         {IF filter = NilFilter \/ Apply(filter, c) THEN Append(containers, c)
          ELSE containers : c \in {convertContainer(r.inspect)}} : TRUE

\* *uint64: nil, or a pointer to v
NilHash == [nil |-> TRUE, v |-> Zero64]
HashPtr(h) == [nil |-> FALSE, v |-> h]

\* a variant of gather that invokes the callback after every successful pull
gatherAlways(previousHash, containers) ==
  LET currentHash == computeHash(containers)
  IN  [previousHash |-> HashPtr(currentHash), called |-> TRUE,
       atCall |-> HashPtr(currentHash)]

\* a variant of gather that invokes the callback before it stores the digest
gatherCallsFirst(previousHash, containers) ==
  LET currentHash == computeHash(containers)
  IN  IF (~previousHash.nil) /\ currentHash = previousHash.v
      THEN [previousHash |-> previousHash, called |-> FALSE, atCall |-> NilHash]
      ELSE [previousHash |-> HashPtr(currentHash), called |-> TRUE,
            atCall |-> previousHash]

\* monitor.gather once gatherContainers has returned containers: the new
\* previousHash, whether the callback was invoked, and what m.previousHash
\* held when it started
gather(previousHash, containers) ==
  LET currentHash == computeHash(containers)
  IN  IF (~previousHash.nil) /\ currentHash = previousHash.v
      THEN [previousHash |-> previousHash, called |-> FALSE, atCall |-> NilHash]
      ELSE [previousHash |-> HashPtr(currentHash), called |-> TRUE,
            atCall |-> HashPtr(currentHash)]


----------------------------------------------------------------------------
(* Bounds and inputs                                                       *)

\* the capacity of the event channel seen by the model
MaxQueue == 1
\* how far past I + M the observation clocks count
ClockSlack == 1
\* the largest number of open subscriptions that is counted
MaxSubs == 2
\* the largest number of sessions that is counted
MaxSessions == 4
\* the value at which the attempt counter of an unlimited retry stops counting
MaxAttempt == 3
\* the longest a gather takes where the client and the callback take time,
\* in ticks
MaxPullTicks == 1
\* time.Minute, in ticks (a tick is twenty seconds)
Minute == 3
\* a timer that is not armed
Stopped == -1

sA == <<97>>
sB == <<98>>
sRunning == <<114, 117, 110, 110, 105, 110, 103>>
sExited == <<101, 120, 105, 116, 101, 100>>
sWeb == <<119, 101, 98>>
sImg == <<105>>

\* container a: labelled web=1, one network, port 80/tcp published on 81
\* and on a host port that does not parse
InspectA(status) ==
  [ID |-> sA, Name |-> <<47, 97>>, Image |-> sImg, Status |-> status,
   Labels |-> Mk([k \in {sWeb} |-> <<49>>]),
   NetworkSettings |->
     [nil |-> FALSE,
      Networks |-> <<[name |-> <<110>>, NetworkID |-> <<49>>,
                      IPAddress |-> <<>>, GlobalIPv6Address |-> <<>>,
                      Gateway |-> <<>>, Aliases |-> GoNil]>>,
      Ports |-> <<[portProto |-> <<56, 48, 47, 116, 99, 112>>,
                   bindings |-> <<[HostIP |-> <<>>, HostPort |-> <<56, 49>>],
                                  [HostIP |-> <<>>, HostPort |-> <<120>>]>>]>>]]

\* container b: no labels, no network settings
InspectB(status) ==
  [ID |-> sB, Name |-> <<47, 98>>, Image |-> sImg, Status |-> status,
   Labels |-> GoNil,
   NetworkSettings |-> [nil |-> TRUE, Networks |-> <<>>, Ports |-> <<>>]]

\* the identities of the inspects from the i-th on
RECURSIVE summariesOf(_, _)
summariesOf(inspects, i) ==
  IF i > Len(inspects) THEN <<>> ELSE <<inspects[i].ID>> \o summariesOf(inspects, i + 1)

\* mockDockerClient.setContainers, and the identities whose inspection fails
MkReg(inspects, failing) ==
  [summaries |-> summariesOf(inspects, 1), inspects |-> inspects, inspectErr |-> failing]

\* the registries the client serves, by name
RegOf(name) ==
  CASE name = "empty" -> MkReg(<<>>, {})
    [] name = "A" -> MkReg(<<InspectA(sRunning)>>, {})
    [] name = "B" -> MkReg(<<InspectB(sRunning)>>, {})
    [] name = "AB" -> MkReg(<<InspectA(sRunning), InspectB(sRunning)>>, {})
    [] name = "BA" -> MkReg(<<InspectB(sRunning), InspectA(sRunning)>>, {})
    [] name = "ABx" -> MkReg(<<InspectA(sRunning), InspectB(sExited)>>, {})
    [] name = "AxB" -> MkReg(<<InspectA(sExited), InspectB(sRunning)>>, {})
    [] name = "ABfail" -> MkReg(<<InspectA(sRunning), InspectB(sRunning)>>, {sB})

\* mockDockerClient.setContainers on the inspects map: the entries of the
\* containers given are written, no entry is removed
setContainers(inspects, containers) ==
  [id \in DOMAIN inspects \cup {containers[i].ID : i \in DOMAIN containers} |->
     IF \E i \in DOMAIN containers : containers[i].ID = id
     THEN containers[CHOOSE i \in DOMAIN containers :
                       /\ containers[i].ID = id
                       /\ \A j \in DOMAIN containers : containers[j].ID = id => j <= i]
     ELSE inspects[id]]

\* WithDebounce, WithMaxDebounceTime, WithMaxIdleTime, in ticks; pull is
\* the longest the calls of one gather take together, client and callback
Timing(d, m, i) == [debounce |-> d, maxDebounceTime |-> m, maxIdleTime |-> i, pull |-> 0]

\* the same timing over a client and a callback that take time
Slow(t) == [t EXCEPT !.pull = MaxPullTicks]

\* WithAutoReconnect(minDelay, maxDelay, maxRetries); nil when not given
NoReconnect == [nil |-> TRUE, MinDelay |-> 0, MaxDelay |-> 0, MaxRetries |-> 0]
AutoReconnect(minDelay, maxDelay, maxRetries) ==
  [nil |-> FALSE, MinDelay |-> minDelay, MaxDelay |-> maxDelay, MaxRetries |-> maxRetries]

StreamLost == Err("watcher connection lost")
ApiDown == Err("docker api unreachable")

----------------------------------------------------------------------------
(* State                                                                   *)

VARIABLES
  ctxDone,           \* m.ctx is cancelled
  filter,            \* m.filter
  timing,            \* m.debounce, m.maxDebounceTime, m.maxIdleTime
  reconnect,         \* m.reconnect
  previousHash,      \* m.previousHash, the dedup cursor
  pc,                \* where the control flow of Run is
  attempt, delay,    \* runWithRetry's locals
  elapsed,           \* time.Since(startTime), counted up to Minute
  after,             \* the timer of time.After(delay)
  err,               \* what runOnce returned
  result,            \* what Run returned
  debounceTimer, maxDebounceTimer, idleTicker, waiting,   \* runOnce's locals
  eventCh, errCh,    \* the channels of the current subscription
  subs,              \* subscriptions opened and still streaming
  registry, listErr, \* the client's summaries and inspectErr (the registry by
                     \* name), and its listErr
  inspects,          \* the client's inspects map
  g,                 \* the gather under way: its trigger, the call it is at,
                     \* what it has listed, read and collected
  budget,            \* changes the environment may still make, -1: any number
  pulled,            \* the pull of the gather the last step ended: "ok",
                     \* "fail"; "none" when the last step ended no gather
  called,            \* that gather invoked the callback
  delivered,         \* with these containers
  last,              \* its trigger, what held when it began, what its pull
                     \* read, and the cursor when the callback started
  deliveredReg,      \* what the pull of the last callback invocation of Run read
  session,           \* sessions started, counted up to MaxSessions
  stableSeen,        \* a session of this Run failed after a Minute or more
  win,               \* the arrivals taken since the last gather: age and
                     \* offsets; after a gather, those it found
  sinceArr,          \* ticks since the loop last took an arrival in the
                     \* session, -1: none
  sinceRefresh,      \* ticks since the last gather of the session: since it
                     \* returned, or since the idle ticker fired for it
  arg,               \* the operands of a call of a function on its own
  res                \* and what the call returned, <<>> before it

config == <<filter, timing, reconnect>>
calls == <<arg, res>>
retryVars == <<attempt, delay, elapsed, after>>
timerVars == <<debounceTimer, maxDebounceTimer, idleTicker, waiting>>
clientVars == <<eventCh, errCh, subs, registry, inspects, listErr, budget>>
cbVars == <<pulled, called, delivered, last>>
gateObs == <<win, sinceArr, sinceRefresh>>
runVars == <<ctxDone, config, previousHash, pc, g, retryVars, err, result, timerVars,
             clientVars, cbVars, deliveredReg, session, stableSeen, gateObs>>
vars == <<runVars, calls>>

NoWindow == [open |-> -1, arrs |-> {}]
\* what a pull read: the identities listed, the inspects returned, in the
\* order of the listing, and the identities whose inspection failed
NoView == [nil |-> TRUE, summaries |-> <<>>, inspects |-> <<>>, inspectErr |-> {}]
Listed(summaries) ==
  [nil |-> FALSE, summaries |-> summaries, inspects |-> <<>>, inspectErr |-> {}]
Read(view, id, r) ==
  IF r.err # NilErr THEN [view EXCEPT !.inspectErr = @ \cup {id}]
  ELSE [view EXCEPT !.inspects = Append(@, r.inspect)]

NoGather == [cause |-> "none", quiet |-> 0, waiting |-> FALSE, cursor |-> NilHash,
             reg |-> NoView, view |-> NoView, atCall |-> NilHash, ticks |-> 0]

\* no gather is under way
NoPull == [cause |-> "none", step |-> "none", quiet |-> 0, waiting |-> FALSE,
           win |-> NoWindow, cursor |-> NilHash, ids |-> <<>>, i |-> 0,
           view |-> NoView, containers |-> <<>>, called |-> FALSE,
           atCall |-> NilHash, ticks |-> 0]

\* no function is called on its own while Run is the program
NoCall == <<>>

\* the state Run starts in
NewMonitor(timings, filters, reconnects, registries, budgets) ==
  /\ ctxDone = FALSE
  /\ filter \in filters
  /\ timing \in timings
  /\ reconnect \in reconnects
  /\ previousHash = NilHash
  /\ pc = "run"
  /\ attempt = 0 /\ delay = 0 /\ elapsed = 0 /\ after = Stopped
  /\ err = NilErr /\ result = NilErr
  /\ debounceTimer = Stopped /\ maxDebounceTimer = Stopped /\ idleTicker = Stopped
  /\ waiting = FALSE
  /\ eventCh = 0 /\ errCh = <<>> /\ subs = 0
  /\ registry \in registries /\ listErr = NilErr
  /\ inspects = setContainers(<<>>, RegOf(registry).inspects)
  /\ g = NoPull
  /\ budget \in budgets
  /\ pulled = "none" /\ called = FALSE /\ delivered = <<>> /\ last = NoGather
  /\ deliveredReg = NoView /\ session = 0 /\ stableSeen = FALSE
  /\ win = NoWindow /\ sinceArr = -1 /\ sinceRefresh = 0

InitWith(timings, filters, reconnects, registries, budgets) ==
  /\ arg = NoCall /\ res = NoCall
  /\ NewMonitor(timings, filters, reconnects, registries, budgets)

----------------------------------------------------------------------------
(* Observations                                                            *)

\* the observation clocks count up to I + M + ClockSlack
ClockCap == timing.maxIdleTime + timing.maxDebounceTime + ClockSlack

\* a tick more on an observation clock
Older(c) == IF c < 0 \/ c >= ClockCap THEN c ELSE c + 1

\* a tick less on an armed timer
Less(t) == IF t > 0 THEN t - 1 ELSE t

\* ticks since the later of the last arrival taken and the last gather
Quiet == IF sinceArr < 0 \/ sinceRefresh < sinceArr THEN sinceRefresh ELSE sinceArr

\* the arrivals taken since the last gather: none right after a gather
Window == IF pulled # "none" THEN NoWindow ELSE win

\* a step that ends no gather leaves nothing of a gather to observe
Settle ==
  /\ pulled' = "none" /\ called' = FALSE /\ delivered' = <<>> /\ last' = NoGather

\* gather is called by trigger c: what holds when it begins
Begin(c) ==
  [NoPull EXCEPT !.cause = c, !.step = "list", !.quiet = Quiet, !.waiting = waiting,
                 !.win = Window, !.cursor = previousHash]

\* the case of a gather is taken: nothing to observe until the gather ends
Began ==
  /\ Settle
  /\ win' = NoWindow
  /\ UNCHANGED <<deliveredReg, session, stableSeen, sinceArr, sinceRefresh>>

\* what the gather p leaves to observe when it ends, its pull having
\* succeeded or not
Observe(p, ok) ==
  /\ pulled' = IF ok THEN "ok" ELSE "fail"
  /\ called' = p.called
  /\ delivered' = IF p.called THEN p.containers ELSE <<>>
  /\ deliveredReg' = IF p.called THEN p.view ELSE deliveredReg
  /\ last' = [cause |-> p.cause, quiet |-> p.quiet, waiting |-> p.waiting,
              cursor |-> p.cursor, reg |-> deliveredReg, view |-> p.view,
              atCall |-> p.atCall, ticks |-> p.ticks]
  /\ sinceRefresh' = IF p.cause = "idle" THEN p.ticks ELSE 0
  /\ win' = p.win

\* a step of the supervisor: no gather, no arrival, no tick
Supervise ==
  /\ Settle
  /\ win' = Window
  /\ UNCHANGED <<deliveredReg, session, sinceArr, sinceRefresh>>

\* a step without a gather, an arrival or a tick
NoRefresh == Supervise /\ UNCHANGED stableSeen

----------------------------------------------------------------------------
(* Run, runWithRetry                                                       *)

\* Run and monitor.run: the dispatch, and runWithRetry's first two lines
run ==
  /\ pc = "run"
  /\ pc' = "runOnce"
  /\ IF reconnect.nil THEN UNCHANGED <<attempt, delay>>
     ELSE attempt' = 0 /\ delay' = reconnect.MinDelay
  /\ NoRefresh
  /\ UNCHANGED <<ctxDone, config, calls, g, previousHash, elapsed, after, err, result,
                 timerVars, clientVars>>

\* runOnce returning: the deferred Stop calls
Return(e) ==
  /\ pc' = "returned"
  /\ err' = e
  /\ debounceTimer' = Stopped /\ maxDebounceTimer' = Stopped /\ idleTicker' = Stopped
  /\ waiting' = FALSE

\* monitor.run without reconnect: Run returns what runOnce returned
runReturn ==
  /\ pc = "returned" /\ reconnect.nil
  /\ result' = err
  /\ pc' = "done"
  /\ NoRefresh
  /\ UNCHANGED <<ctxDone, config, calls, g, previousHash, retryVars, err, timerVars, clientVars>>

\* a variant of retry that gives up one failure early
retryOffByOne ==
  /\ pc = "returned" /\ ~reconnect.nil
  /\ IF ctxDone
     THEN /\ result' = Canceled /\ pc' = "done"
          /\ UNCHANGED <<attempt, delay, after>>
     ELSE LET stable == elapsed >= Minute
              a == (IF stable THEN 0 ELSE attempt) + 1
              d == IF stable THEN reconnect.MinDelay ELSE delay
          IN  /\ attempt' = IF reconnect.MaxRetries = 0 /\ a > MaxAttempt
                            THEN MaxAttempt ELSE a
              /\ delay' = d
              /\ IF reconnect.MaxRetries > 0 /\ a >= reconnect.MaxRetries
                 THEN result' = err /\ pc' = "done" /\ after' = after
                 ELSE result' = result /\ pc' = "backoff"
                      /\ after' = IF d > 0 THEN d ELSE 0
  /\ stableSeen' = (stableSeen \/ (~ctxDone /\ elapsed >= Minute))
  /\ Supervise
  /\ UNCHANGED <<ctxDone, config, calls, g, previousHash, elapsed, err, timerVars, clientVars>>


\* a variant of retry for which a MaxRetries of 0 allows no retry
retryZeroIsLimit ==
  /\ pc = "returned" /\ ~reconnect.nil
  /\ IF ctxDone
     THEN /\ result' = Canceled /\ pc' = "done"
          /\ UNCHANGED <<attempt, delay, after>>
     ELSE LET stable == elapsed >= Minute
              a == (IF stable THEN 0 ELSE attempt) + 1
              d == IF stable THEN reconnect.MinDelay ELSE delay
          IN  /\ attempt' = IF reconnect.MaxRetries = 0 /\ a > MaxAttempt
                            THEN MaxAttempt ELSE a
              /\ delay' = d
              /\ IF a > reconnect.MaxRetries
                 THEN result' = err /\ pc' = "done" /\ after' = after
                 ELSE result' = result /\ pc' = "backoff"
                      /\ after' = IF d > 0 THEN d ELSE 0
  /\ stableSeen' = (stableSeen \/ (~ctxDone /\ elapsed >= Minute))
  /\ Supervise
  /\ UNCHANGED <<ctxDone, config, calls, g, previousHash, elapsed, err, timerVars, clientVars>>


\* a variant of retry that never resets the attempt counter and the delay
retryNeverResets ==
  /\ pc = "returned" /\ ~reconnect.nil
  /\ IF ctxDone
     THEN /\ result' = Canceled /\ pc' = "done"
          /\ UNCHANGED <<attempt, delay, after>>
     ELSE LET stable == FALSE
              a == (IF stable THEN 0 ELSE attempt) + 1
              d == IF stable THEN reconnect.MinDelay ELSE delay
          IN  /\ attempt' = IF reconnect.MaxRetries = 0 /\ a > MaxAttempt
                            THEN MaxAttempt ELSE a
              /\ delay' = d
              /\ IF reconnect.MaxRetries > 0 /\ a > reconnect.MaxRetries
                 THEN result' = err /\ pc' = "done" /\ after' = after
                 ELSE result' = result /\ pc' = "backoff"
                      /\ after' = IF d > 0 THEN d ELSE 0
  /\ stableSeen' = (stableSeen \/ (~ctxDone /\ elapsed >= Minute))
  /\ Supervise
  /\ UNCHANGED <<ctxDone, config, calls, g, previousHash, elapsed, err, timerVars, clientVars>>


\* a variant of retry that counts the attempt before it looks at the context
retryCountsCancel ==
  /\ pc = "returned" /\ ~reconnect.nil
  /\ IF ctxDone
     THEN /\ result' = Canceled /\ pc' = "done"
          /\ attempt' = (IF attempt < MaxAttempt THEN attempt + 1 ELSE attempt)
          /\ UNCHANGED <<delay, after>>
     ELSE LET stable == elapsed >= Minute
              a == (IF stable THEN 0 ELSE attempt) + 1
              d == IF stable THEN reconnect.MinDelay ELSE delay
          IN  /\ attempt' = IF reconnect.MaxRetries = 0 /\ a > MaxAttempt
                            THEN MaxAttempt ELSE a
              /\ delay' = d
              /\ IF reconnect.MaxRetries > 0 /\ a > reconnect.MaxRetries
                 THEN result' = err /\ pc' = "done" /\ after' = after
                 ELSE result' = result /\ pc' = "backoff"
                      /\ after' = IF d > 0 THEN d ELSE 0
  /\ stableSeen' = (stableSeen \/ (~ctxDone /\ elapsed >= Minute))
  /\ Supervise
  /\ UNCHANGED <<ctxDone, config, calls, g, previousHash, elapsed, err, timerVars, clientVars>>

\* runWithRetry after runOnce returned, up to the select
retry ==
  /\ pc = "returned" /\ ~reconnect.nil
  /\ IF ctxDone
     THEN /\ result' = Canceled /\ pc' = "done"
          /\ UNCHANGED <<attempt, delay, after>>
     ELSE LET stable == elapsed >= Minute
              a == (IF stable THEN 0 ELSE attempt) + 1
              d == IF stable THEN reconnect.MinDelay ELSE delay
          IN  /\ attempt' = IF reconnect.MaxRetries = 0 /\ a > MaxAttempt
                            THEN MaxAttempt ELSE a
              /\ delay' = d
              /\ IF reconnect.MaxRetries > 0 /\ a > reconnect.MaxRetries
                 THEN result' = err /\ pc' = "done" /\ after' = after
                 ELSE result' = result /\ pc' = "backoff"
                      /\ after' = IF d > 0 THEN d ELSE 0
  /\ stableSeen' = (stableSeen \/ (~ctxDone /\ elapsed >= Minute))
  /\ Supervise
  /\ UNCHANGED <<ctxDone, config, calls, g, previousHash, elapsed, err, timerVars, clientVars>>

\* runWithRetry's select: case <-m.ctx.Done()
backoffCancelled ==
  /\ pc = "backoff" /\ ctxDone
  /\ result' = Canceled /\ pc' = "done" /\ after' = Stopped
  /\ NoRefresh
  /\ UNCHANGED <<ctxDone, config, calls, g, previousHash, attempt, delay, elapsed, err,
                 timerVars, clientVars>>

\* a variant of backoffElapsed that doubles the delay without the cap
backoffElapsedUncapped ==
  /\ pc = "backoff" /\ after = 0
  /\ delay' = delay * 2
  /\ after' = Stopped
  /\ pc' = "runOnce"
  /\ NoRefresh
  /\ UNCHANGED <<ctxDone, config, calls, g, previousHash, attempt, elapsed, err, result,
                 timerVars, clientVars>>

\* runWithRetry's select: case <-time.After(delay), and the doubling
backoffElapsed ==
  /\ pc = "backoff" /\ after = 0
  /\ delay' = IF delay * 2 > reconnect.MaxDelay THEN reconnect.MaxDelay ELSE delay * 2
  /\ after' = Stopped
  /\ pc' = "runOnce"
  /\ NoRefresh
  /\ UNCHANGED <<ctxDone, config, calls, g, previousHash, attempt, elapsed, err, result,
                 timerVars, clientVars>>

----------------------------------------------------------------------------
(* runOnce                                                                 *)

\* a variant of subscribe that also clears the dedup cursor
subscribeFresh ==
  /\ pc = "runOnce"
  /\ elapsed' = 0
  /\ subs' = IF subs < MaxSubs THEN subs + 1 ELSE subs
  /\ pc' = "initial"
  /\ previousHash' = NilHash
  /\ Settle
  /\ session' = IF session < MaxSessions THEN session + 1 ELSE session
  /\ win' = NoWindow /\ sinceArr' = -1
  /\ UNCHANGED <<ctxDone, config, calls, g, attempt, delay, after, err, result,
                 timerVars, eventCh, errCh, registry, inspects, listErr, budget,
                 deliveredReg, stableSeen, sinceRefresh>>

\* startTime := time.Now() and client.Events: the client hands out its two
\* channels, with what they hold
subscribe ==
  /\ pc = "runOnce"
  /\ elapsed' = 0
  /\ subs' = IF subs < MaxSubs THEN subs + 1 ELSE subs
  /\ pc' = "initial"
  /\ Settle
  /\ session' = IF session < MaxSessions THEN session + 1 ELSE session
  /\ win' = NoWindow /\ sinceArr' = -1
  /\ UNCHANGED <<ctxDone, config, calls, g, previousHash, attempt, delay, after, err, result,
                 timerVars, eventCh, errCh, registry, inspects, listErr, budget,
                 deliveredReg, stableSeen, sinceRefresh>>

\* a variant of initialGather that pulls only while nothing has been
\* delivered: a later session goes to its loop at once
initialGatherUnlessDelivered ==
  /\ pc = "initial"
  /\ IF previousHash = NilHash
     THEN pc' = "gather" /\ g' = Begin("initial") /\ Began /\ UNCHANGED timerVars
     ELSE /\ pc' = "loop" /\ g' = g
          /\ debounceTimer' = Stopped /\ maxDebounceTimer' = Stopped
          /\ idleTicker' = timing.maxIdleTime /\ waiting' = FALSE
          /\ NoRefresh
  /\ UNCHANGED <<ctxDone, config, calls, previousHash, retryVars, err, result, clientVars>>

\* "Emit initial state immediately": gather is called
initialGather ==
  /\ pc = "initial"
  /\ pc' = "gather"
  /\ g' = Begin("initial")
  /\ Began
  /\ UNCHANGED <<ctxDone, config, calls, previousHash, retryVars, err, result, timerVars,
                 clientVars>>

\* a variant of the ctx.Done case that returns nil
ctxDoneCaseReturnsNil ==
  /\ pc = "loop" /\ ctxDone
  /\ Return(NilErr)
  /\ NoRefresh
  /\ UNCHANGED <<ctxDone, config, calls, g, previousHash, retryVars, result, clientVars>>

\* case <-m.ctx.Done()
ctxDoneCase ==
  /\ pc = "loop" /\ ctxDone
  /\ Return(Canceled)
  /\ NoRefresh
  /\ UNCHANGED <<ctxDone, config, calls, g, previousHash, retryVars, result, clientVars>>

\* a variant of errCase that returns nil whatever it received
errCaseSwallows ==
  /\ pc = "loop" /\ errCh # <<>>
  /\ errCh' = Tail(errCh)
  /\ Return(NilErr)
  /\ NoRefresh
  /\ UNCHANGED <<ctxDone, config, calls, g, previousHash, retryVars, result, eventCh, subs,
                 registry, inspects, listErr, budget>>

\* case err := <-errCh
errCase ==
  /\ pc = "loop" /\ errCh # <<>>
  /\ errCh' = Tail(errCh)
  /\ Return(IF Head(errCh) # NilErr THEN Wrap("failed to stream events", Head(errCh))
            ELSE NilErr)
  /\ NoRefresh
  /\ UNCHANGED <<ctxDone, config, calls, g, previousHash, retryVars, result, eventCh, subs,
                 registry, inspects, listErr, budget>>

\* the observations of an arrival
Arrival ==
  /\ Settle
  /\ sinceArr' = 0
  /\ win' = IF Window.open < 0 THEN [open |-> 0, arrs |-> {0}]
            ELSE [open |-> Window.open, arrs |-> Window.arrs \cup {Window.open}]
  /\ UNCHANGED <<deliveredReg, session, stableSeen, sinceRefresh>>

\* a variant of eventCase that leaves the idle ticker alone
eventCaseKeepsIdle ==
  /\ pc = "loop" /\ eventCh > 0
  /\ eventCh' = eventCh - 1
  /\ idleTicker' = idleTicker
  /\ debounceTimer' = timing.debounce
  /\ IF waiting THEN UNCHANGED <<maxDebounceTimer, waiting>>
     ELSE maxDebounceTimer' = timing.maxDebounceTime /\ waiting' = TRUE
  /\ Arrival
  /\ UNCHANGED <<ctxDone, config, calls, g, previousHash, pc, retryVars, err, result, errCh,
                 subs, registry, inspects, listErr, budget>>

\* a variant of eventCase that arms the debounce timer only when it opens
\* the window
eventCaseArmsOnce ==
  /\ pc = "loop" /\ eventCh > 0
  /\ eventCh' = eventCh - 1
  /\ idleTicker' = timing.maxIdleTime
  /\ IF waiting THEN UNCHANGED <<debounceTimer, maxDebounceTimer, waiting>>
     ELSE /\ debounceTimer' = timing.debounce
          /\ maxDebounceTimer' = timing.maxDebounceTime /\ waiting' = TRUE
  /\ Arrival
  /\ UNCHANGED <<ctxDone, config, calls, g, previousHash, pc, retryVars, err, result, errCh,
                 subs, registry, inspects, listErr, budget>>

\* a variant of eventCase that restarts the max-debounce timer on every
\* arrival
eventCaseRestartsMax ==
  /\ pc = "loop" /\ eventCh > 0
  /\ eventCh' = eventCh - 1
  /\ idleTicker' = timing.maxIdleTime
  /\ debounceTimer' = timing.debounce
  /\ maxDebounceTimer' = timing.maxDebounceTime /\ waiting' = TRUE
  /\ Arrival
  /\ UNCHANGED <<ctxDone, config, calls, g, previousHash, pc, retryVars, err, result, errCh,
                 subs, registry, inspects, listErr, budget>>

\* a variant of eventCase that never arms the max-debounce timer
eventCaseArmsDebounceOnly ==
  /\ pc = "loop" /\ eventCh > 0
  /\ eventCh' = eventCh - 1
  /\ idleTicker' = timing.maxIdleTime
  /\ debounceTimer' = timing.debounce
  /\ IF waiting THEN UNCHANGED <<maxDebounceTimer, waiting>>
     ELSE maxDebounceTimer' = maxDebounceTimer /\ waiting' = TRUE
  /\ Arrival
  /\ UNCHANGED <<ctxDone, config, calls, g, previousHash, pc, retryVars, err, result, errCh,
                 subs, registry, inspects, listErr, budget>>

\* a variant of eventCase that also takes an arrival while a gather is
\* under way
eventCaseAnytime ==
  /\ pc \in {"loop", "gather"} /\ eventCh > 0
  /\ eventCh' = eventCh - 1
  /\ idleTicker' = timing.maxIdleTime
  /\ debounceTimer' = timing.debounce
  /\ IF waiting THEN UNCHANGED <<maxDebounceTimer, waiting>>
     ELSE maxDebounceTimer' = timing.maxDebounceTime /\ waiting' = TRUE
  /\ Arrival
  /\ UNCHANGED <<ctxDone, config, calls, g, previousHash, pc, retryVars, err, result, errCh,
                 subs, registry, inspects, listErr, budget>>

\* case event := <-eventCh
eventCase ==
  /\ pc = "loop" /\ eventCh > 0
  /\ eventCh' = eventCh - 1
  /\ idleTicker' = timing.maxIdleTime
  /\ debounceTimer' = timing.debounce
  /\ IF waiting THEN UNCHANGED <<maxDebounceTimer, waiting>>
     ELSE maxDebounceTimer' = timing.maxDebounceTime /\ waiting' = TRUE
  /\ Arrival
  /\ UNCHANGED <<ctxDone, config, calls, g, previousHash, pc, retryVars, err, result, errCh,
                 subs, registry, inspects, listErr, budget>>

\* case <-debounceTimer.C: the value of the timer is received, gather is
\* called
debounceCase ==
  /\ pc = "loop" /\ debounceTimer = 0
  /\ debounceTimer' = Stopped
  /\ pc' = "gather"
  /\ g' = Begin("debounce")
  /\ Began
  /\ UNCHANGED <<ctxDone, config, calls, previousHash, retryVars, err, result,
                 maxDebounceTimer, idleTicker, waiting, clientVars>>

\* case <-maxDebounceTimer.C
maxDebounceCase ==
  /\ pc = "loop" /\ maxDebounceTimer = 0
  /\ maxDebounceTimer' = Stopped
  /\ pc' = "gather"
  /\ g' = Begin("maxDebounce")
  /\ Began
  /\ UNCHANGED <<ctxDone, config, calls, previousHash, retryVars, err, result,
                 debounceTimer, idleTicker, waiting, clientVars>>

\* a variant of idleCase that refreshes only when a window is open
idleCaseOnlyPending ==
  /\ pc = "loop" /\ idleTicker = 0
  /\ idleTicker' = timing.maxIdleTime
  /\ IF waiting THEN pc' = "gather" /\ g' = Begin("idle") /\ Began
     ELSE NoRefresh /\ UNCHANGED <<pc, g>>
  /\ UNCHANGED <<ctxDone, config, calls, previousHash, retryVars, err, result,
                 debounceTimer, maxDebounceTimer, waiting, clientVars>>

\* case <-idleTicker.C: the ticker goes on with its period, gather is called
\* (no gather of the timings checked lasts longer than the period and a
\* part of it, so that a tick taken late is taken at an instant of the
\* ticker's schedule)
idleCase ==
  /\ pc = "loop" /\ idleTicker = 0
  /\ idleTicker' = timing.maxIdleTime
  /\ pc' = "gather"
  /\ g' = Begin("idle")
  /\ Began
  /\ UNCHANGED <<ctxDone, config, calls, previousHash, retryVars, err, result,
                 debounceTimer, maxDebounceTimer, waiting, clientVars>>

\* what the client answers now
Client ==
  [summaries |-> RegOf(registry).summaries, inspects |-> inspects,
   inspectErr |-> RegOf(registry).inspectErr, listErr |-> listErr]

\* a variant of containerList that clears the cursor when the listing fails
containerListForgets ==
  /\ pc = "gather" /\ g.step = "list"
  /\ \E r \in {ContainerList(Client)} :
       IF r.err # NilErr
       THEN /\ Return(Wrap("failed to refresh containers", r.err))
            /\ previousHash' = NilHash
            /\ Observe(g, FALSE)
            /\ g' = NoPull
            /\ UNCHANGED <<session, stableSeen, sinceArr>>
       ELSE /\ g' = [g EXCEPT !.step = IF r.summaries = <<>> THEN "dedup" ELSE "inspect",
                              !.ids = r.summaries, !.i = 1,
                              !.view = Listed(r.summaries)]
            /\ NoRefresh
            /\ UNCHANGED <<previousHash, pc, err, timerVars>>
  /\ UNCHANGED <<ctxDone, config, calls, retryVars, result, clientVars>>

\* gatherContainers calls ContainerList; when it fails, gather and the case
\* return the error and runOnce returns
containerList ==
  /\ pc = "gather" /\ g.step = "list"
  /\ \E r \in {ContainerList(Client)} :
       IF r.err # NilErr
       THEN /\ Return(Wrap("failed to refresh containers", r.err))
            /\ Observe(g, FALSE)
            /\ g' = NoPull
            /\ UNCHANGED <<session, stableSeen, sinceArr>>
       ELSE /\ g' = [g EXCEPT !.step = IF r.summaries = <<>> THEN "dedup" ELSE "inspect",
                              !.ids = r.summaries, !.i = 1,
                              !.view = Listed(r.summaries)]
            /\ NoRefresh
            /\ UNCHANGED <<pc, err, timerVars>>
  /\ UNCHANGED <<ctxDone, config, calls, previousHash, retryVars, result, clientVars>>

\* a variant of containerInspect that gives up the pull when the inspection
\* fails
containerInspectGivesUp ==
  /\ pc = "gather" /\ g.step = "inspect"
  /\ \E r \in {ContainerInspect(Client, g.ids[g.i])} :
       IF r.err # NilErr
       THEN /\ Return(Wrap("failed to refresh containers", r.err))
            /\ Observe([g EXCEPT !.view = Read(g.view, g.ids[g.i], r)], FALSE)
            /\ g' = NoPull
            /\ UNCHANGED <<session, stableSeen, sinceArr>>
       ELSE /\ g' = [g EXCEPT !.step = IF g.i = Len(g.ids) THEN "dedup" ELSE "inspect",
                              !.i = g.i + 1,
                              !.view = Read(g.view, g.ids[g.i], r),
                              !.containers = gatherStep(r, filter, g.containers)]
            /\ NoRefresh
            /\ UNCHANGED <<pc, err, timerVars>>
  /\ UNCHANGED <<ctxDone, config, calls, previousHash, retryVars, result, clientVars>>

\* one turn of the loop of gatherContainers: ContainerInspect of the next
\* identity listed
containerInspect ==
  /\ pc = "gather" /\ g.step = "inspect"
  /\ \E r \in {ContainerInspect(Client, g.ids[g.i])} :
       g' = [g EXCEPT !.step = IF g.i = Len(g.ids) THEN "dedup" ELSE "inspect",
                      !.i = g.i + 1,
                      !.view = Read(g.view, g.ids[g.i], r),
                      !.containers = gatherStep(r, filter, g.containers)]
  /\ NoRefresh
  /\ UNCHANGED <<ctxDone, config, calls, previousHash, pc, retryVars, err, result,
                 timerVars, clientVars>>

\* gatherContainers has returned: the dedup, and the callback is invoked
dedup ==
  /\ pc = "gather" /\ g.step = "dedup"
  /\ \E r \in {gather(previousHash, g.containers)} :
       /\ previousHash' = r.previousHash
       /\ g' = [g EXCEPT !.step = "tail", !.called = r.called, !.atCall = r.atCall]
  /\ NoRefresh
  /\ UNCHANGED <<ctxDone, config, calls, pc, retryVars, err, result, timerVars,
                 clientVars>>

\* a variant of After in which the debounce case leaves the idle ticker alone
AfterKeepsIdle(c) ==
  CASE c = "initial" ->
         /\ debounceTimer' = Stopped /\ maxDebounceTimer' = Stopped
         /\ idleTicker' = timing.maxIdleTime
         /\ waiting' = FALSE
    [] c = "debounce" ->
         /\ maxDebounceTimer' = Stopped
         /\ waiting' = FALSE
         /\ UNCHANGED <<debounceTimer, idleTicker>>
    [] c = "maxDebounce" ->
         /\ debounceTimer' = Stopped
         /\ idleTicker' = timing.maxIdleTime
         /\ waiting' = FALSE
         /\ UNCHANGED maxDebounceTimer
    [] c = "idle" ->
         /\ IF waiting
            THEN debounceTimer' = Stopped /\ maxDebounceTimer' = Stopped
                 /\ waiting' = FALSE
            ELSE UNCHANGED <<debounceTimer, maxDebounceTimer, waiting>>
         /\ UNCHANGED idleTicker

\* a variant of After in which the debounce case leaves the max-debounce
\* timer armed
AfterLeavesMax(c) ==
  CASE c = "initial" ->
         /\ debounceTimer' = Stopped /\ maxDebounceTimer' = Stopped
         /\ idleTicker' = timing.maxIdleTime
         /\ waiting' = FALSE
    [] c = "debounce" ->
         /\ idleTicker' = timing.maxIdleTime
         /\ waiting' = FALSE
         /\ UNCHANGED <<debounceTimer, maxDebounceTimer>>
    [] c = "maxDebounce" ->
         /\ debounceTimer' = Stopped
         /\ idleTicker' = timing.maxIdleTime
         /\ waiting' = FALSE
         /\ UNCHANGED maxDebounceTimer
    [] c = "idle" ->
         /\ IF waiting
            THEN debounceTimer' = Stopped /\ maxDebounceTimer' = Stopped
                 /\ waiting' = FALSE
            ELSE UNCHANGED <<debounceTimer, maxDebounceTimer, waiting>>
         /\ UNCHANGED idleTicker

\* a variant of After in which the idle case leaves an open window open
AfterKeepsWindow(c) ==
  CASE c = "initial" ->
         /\ debounceTimer' = Stopped /\ maxDebounceTimer' = Stopped
         /\ idleTicker' = timing.maxIdleTime
         /\ waiting' = FALSE
    [] c = "debounce" ->
         /\ maxDebounceTimer' = Stopped
         /\ idleTicker' = timing.maxIdleTime
         /\ waiting' = FALSE
         /\ UNCHANGED debounceTimer
    [] c = "maxDebounce" ->
         /\ debounceTimer' = Stopped
         /\ idleTicker' = timing.maxIdleTime
         /\ waiting' = FALSE
         /\ UNCHANGED maxDebounceTimer
    [] c = "idle" -> UNCHANGED <<debounceTimer, maxDebounceTimer, waiting, idleTicker>>

\* what runOnce does once the gather of trigger c has returned nil: the
\* timers are created after the initial gather, the other timer is stopped
\* and the idle ticker reset after a debounced one, an open window is closed
\* after an idle one
After(c) ==
  CASE c = "initial" ->
         /\ debounceTimer' = Stopped /\ maxDebounceTimer' = Stopped
         /\ idleTicker' = timing.maxIdleTime
         /\ waiting' = FALSE
    [] c = "debounce" ->
         /\ maxDebounceTimer' = Stopped
         /\ idleTicker' = timing.maxIdleTime
         /\ waiting' = FALSE
         /\ UNCHANGED debounceTimer
    [] c = "maxDebounce" ->
         /\ debounceTimer' = Stopped
         /\ idleTicker' = timing.maxIdleTime
         /\ waiting' = FALSE
         /\ UNCHANGED maxDebounceTimer
    [] c = "idle" ->
         /\ IF waiting
            THEN debounceTimer' = Stopped /\ maxDebounceTimer' = Stopped
                 /\ waiting' = FALSE
            ELSE UNCHANGED <<debounceTimer, maxDebounceTimer, waiting>>
         /\ UNCHANGED idleTicker

\* the callback and gather have returned: the rest of the case, and runOnce
\* is at its select again
finish ==
  /\ pc = "gather" /\ g.step = "tail"
  /\ After(g.cause)
  /\ pc' = "loop"
  /\ Observe(g, TRUE)
  /\ g' = NoPull
  /\ UNCHANGED <<ctxDone, config, calls, previousHash, retryVars, err, result,
                 clientVars, session, stableSeen, sinceArr>>

\* one of the cases of runOnce's select can proceed
Ready ==
  \/ ctxDone \/ errCh # <<>> \/ eventCh > 0
  \/ debounceTimer = 0 \/ maxDebounceTimer = 0 \/ idleTicker = 0

----------------------------------------------------------------------------
(* The environment: the client, the caller, the clock                      *)

Subscribed == pc \in {"initial", "gather", "loop"}

Spend == budget # 0 /\ budget' = (IF budget > 0 THEN budget - 1 ELSE budget)

\* the event stream delivers a notification
Send ==
  /\ Subscribed /\ eventCh < MaxQueue
  /\ Spend
  /\ eventCh' = eventCh + 1
  /\ NoRefresh
  /\ UNCHANGED <<ctxDone, config, calls, g, previousHash, pc, retryVars, err, result, timerVars,
                 errCh, subs, registry, inspects, listErr>>

\* the event stream ends: an error on the error channel, or nil when the
\* channel is closed
StreamEnds ==
  /\ Subscribed /\ errCh = <<>>
  /\ \E e \in {StreamLost, NilErr} : errCh' = <<e>>
  /\ subs' = IF subs > 0 THEN subs - 1 ELSE 0
  /\ NoRefresh
  /\ UNCHANGED <<ctxDone, config, calls, g, previousHash, pc, retryVars, err, result, timerVars,
                 eventCh, registry, inspects, listErr, budget>>

\* the containers change
Change(registries) ==
  /\ pc # "done"
  /\ Spend
  /\ registry' \in registries \ {registry}
  /\ inspects' = setContainers(inspects, RegOf(registry').inspects)
  /\ NoRefresh
  /\ UNCHANGED <<ctxDone, config, calls, g, previousHash, pc, retryVars, err, result, timerVars,
                 eventCh, errCh, subs, listErr>>

\* the listing call starts or stops failing
ListFlips ==
  /\ pc # "done"
  /\ listErr' = IF listErr = NilErr THEN ApiDown ELSE NilErr
  /\ NoRefresh
  /\ UNCHANGED <<ctxDone, config, calls, g, previousHash, pc, retryVars, err, result, timerVars,
                 eventCh, errCh, subs, registry, inspects, budget>>

\* the caller cancels the context; every stream of that context ends
Cancel ==
  /\ pc # "done" /\ ~ctxDone
  /\ ctxDone' = TRUE
  /\ subs' = 0
  /\ NoRefresh
  /\ UNCHANGED <<config, calls, g, previousHash, pc, retryVars, err, result, timerVars,
                 eventCh, errCh, registry, inspects, listErr, budget>>

\* Run waits in a select none of whose cases can proceed
Blocked == (pc = "loop" /\ ~Ready) \/ (pc = "backoff" /\ ~ctxDone /\ after > 0)

\* Run waits for the client or the callback to return
Pulling == pc = "gather" /\ g.ticks < timing.pull

\* a tick passes while Run is blocked in one of its two selects, or waits
\* in a call of a gather
Tick ==
  /\ Blocked \/ Pulling
  /\ g' = IF pc = "gather" THEN [g EXCEPT !.ticks = @ + 1] ELSE g
  /\ debounceTimer' = Less(debounceTimer)
  /\ maxDebounceTimer' = Less(maxDebounceTimer)
  /\ idleTicker' = Less(idleTicker)
  /\ after' = Less(after)
  /\ elapsed' = IF reconnect.nil \/ elapsed >= Minute THEN elapsed ELSE elapsed + 1
  /\ Settle
  /\ sinceArr' = Older(sinceArr)
  /\ sinceRefresh' = Older(sinceRefresh)
  /\ win' = IF Window.open < 0 THEN NoWindow
            ELSE [open |-> Older(Window.open), arrs |-> Window.arrs]
  /\ UNCHANGED <<ctxDone, config, calls, previousHash, pc, attempt, delay, err, result,
                 waiting, clientVars, deliveredReg, session, stableSeen>>

\* the calls of a gather and what follows it
Gather == containerList \/ containerInspect \/ dedup \/ finish

\* one session
Session ==
  \/ subscribe \/ initialGather
  \/ eventCase \/ debounceCase \/ maxDebounceCase \/ idleCase
  \/ Gather

----------------------------------------------------------------------------
(* Specifications                                                          *)

\* The refresh gate: one session over a fixed registry; D < I < M, and
\* I < D < M, each with gathers that take no time and with gathers that
\* take up to MaxPullTicks
GateTimings ==
  {Timing(2, 5, 3), Timing(3, 4, 2), Slow(Timing(2, 5, 3)), Slow(Timing(3, 4, 2))}

InitGate == InitWith(GateTimings, {NilFilter}, {NoReconnect}, {"B"}, {-1})

NextGate ==
  \/ run \/ runReturn \/ Session \/ ctxDoneCase \/ errCase
  \/ Send \/ StreamEnds \/ Cancel \/ Tick

SpecGate == InitGate /\ [][NextGate]_vars

\* Pull, filter and dedup: the initial and the idle gathers of one session
\* over a registry that changes, also between the calls of a gather
DataRegs == {"A", "AB", "BA", "ABx", "AxB", "ABfail"}
DataFilters == {NilFilter, LabelExists(sWeb), StateEquals(sRunning)}

InitData == InitWith({Slow(Timing(1, 2, 2))}, DataFilters, {NoReconnect}, {"A", "AB"}, {-1})

NextData ==
  \/ run \/ runReturn \/ subscribe \/ initialGather \/ idleCase \/ Gather
  \/ Change(DataRegs) \/ ListFlips \/ Tick

SpecData == InitData /\ [][NextData]_vars

\* The supervisor: sessions that fail, with and without reconnect, over a
\* registry that changes; the stream notifies of nothing
RetryRegs == {"empty", "B"}
Reconnects == {NoReconnect, AutoReconnect(1, 2, 2), AutoReconnect(1, 2, 0)}

InitRetry == InitWith({Slow(Timing(1, 1, 1))}, {NilFilter}, Reconnects, {"B"}, {-1})

NextRetry ==
  \/ run \/ runReturn \/ retry \/ backoffCancelled \/ backoffElapsed
  \/ subscribe \/ initialGather \/ idleCase \/ Gather \/ ctxDoneCase \/ errCase
  \/ StreamEnds \/ Change(RetryRegs) \/ ListFlips \/ Cancel \/ Tick

SpecRetry == InitRetry /\ [][NextRetry]_vars

\* Eventual delivery: a session that neither fails nor is cancelled, over a
\* registry that changes, and a stream that notifies, a bounded number of
\* times
LiveRegs == {"A", "AB", "ABx"}
LiveFilters == {NilFilter, LabelExists(sWeb)}

InitLive == InitWith({Slow(Timing(1, 2, 2))}, LiveFilters, {NoReconnect}, {"A"}, {2})

NextLive == run \/ Session \/ Send \/ Change(LiveRegs) \/ Tick

\* the control flow goes on while a step of it is possible, and time passes
\* while it is blocked
SpecLive == InitLive /\ [][NextLive]_vars /\ WF_vars(run \/ Session) /\ WF_vars(Tick)

\* The backoff: sessions that fail, early or after a Minute, under reconnect
\* with a limit, without one, and with MinDelay above MaxDelay
BackoffConfigs == {AutoReconnect(1, 2, 2), AutoReconnect(1, 3, 0), AutoReconnect(2, 1, 2)}

InitBackoff == InitWith({Slow(Timing(1, 2, 2))}, {NilFilter}, BackoffConfigs, {"B"}, {-1})

NextBackoff ==
  \/ run \/ retry \/ backoffCancelled \/ backoffElapsed
  \/ subscribe \/ initialGather \/ idleCase \/ Gather \/ ctxDoneCase \/ errCase
  \/ StreamEnds \/ ListFlips \/ Cancel \/ Tick

SpecBackoff == InitBackoff /\ [][NextBackoff]_vars

\* Sessions one after the other: under reconnect without a limit, each
\* session over a stream that notifies and ends and a registry that changes,
\* with gathers that take up to MaxPullTicks
InitSessions ==
  InitWith({Slow(Timing(1, 2, 2))}, {NilFilter}, {AutoReconnect(1, 1, 0)}, {"B"}, {-1})

NextSessions ==
  \/ run \/ retry \/ backoffElapsed \/ Session \/ errCase
  \/ Send \/ StreamEnds \/ Change(RetryRegs) \/ Tick

SpecSessions == InitSessions /\ [][NextSessions]_vars

----------------------------------------------------------------------------
(* The functions of the package called on their own                        *)

\* nothing of Run changes while a function is called on its own
InitCall(args) ==
  /\ arg \in args /\ res = NoCall
  /\ NewMonitor({Timing(1, 2, 2)}, {NilFilter}, {NoReconnect}, {"empty"}, {0})

sC == <<99>>
sAB == <<97, 98>>
sBC == <<98, 99>>
sTcp == <<116, 99, 112>>

\* Container{...}, Network{...}, Port{...}
Ctr(id, name, state, labels, networks, ports) ==
  [ID |-> id, Name |-> name, Image |-> sImg, State |-> state,
   Labels |-> labels, Networks |-> networks, Ports |-> ports]
Net(name, id, aliases) ==
  [Name |-> name, ID |-> id, IPAddress |-> <<49>>, IP6Address |-> <<>>,
   Gateway |-> <<>>, Aliases |-> aliases]
Prt(hostPort, containerPort) ==
  [HostIP |-> <<>>, HostPort |-> hostPort, ContainerPort |-> containerPort,
   Protocol |-> sTcp]

\* a container with two labels, two networks (three aliases, none) and two ports
Full(state, value, alias, hostPort) ==
  Ctr(sA, sB, state,
      Mk([k \in {sWeb, sA} |-> IF k = sWeb THEN value ELSE sB]),
      Mk(<<Net(sA, sB, Mk(<<sB, alias, sC>>)), Net(sB, sB, GoNil)>>),
      Mk(<<Prt(hostPort, 80), Prt(443, 443)>>))

\* the containers that are hashed
HashContainers ==
  { Ctr(sAB, sC, sRunning, GoNil, GoNil, GoNil),
    Ctr(sA, sBC, sRunning, GoNil, GoNil, GoNil),
    Ctr(sA, sB, sRunning, GoNil, GoNil, GoNil),
    Ctr(sA, sB, sRunning, Mk(<<>>), Mk(<<>>), Mk(<<>>)),
    Ctr(sA, sB, sRunning, GoNil, Mk(<<Net(sA, sB, GoNil)>>), GoNil),
    Ctr(sA, sB, sRunning, Mk(<<>>), Mk(<<Net(sA, sB, Mk(<<>>))>>), GoNil),
    Ctr(sA, sB, sRunning, GoNil, Mk(<<Net(sA, sB, GoNil), Net(sA, sB, GoNil)>>), GoNil),
    Full(sRunning, sA, sA, 8080),
    Full(sExited, sA, sA, 8080),
    Full(sRunning, sB, sA, 8080),
    Full(sRunning, sA, sAB, 8080),
    Full(sRunning, sA, sA, 8081) }

\* the largest collection computeHash is called with
MaxContainers == 3

\* the collections that are hashed
HashCollections ==
  UNION {[1..n -> {Full(sRunning, sA, sA, 8080), Full(sExited, sA, sA, 8080),
                   Ctr(sA, sB, sRunning, GoNil, GoNil, GoNil)}] : n \in 0..MaxContainers}

HashCalls ==
  [fn : {"Container.hash"}, cs : [1..2 -> HashContainers]]
    \cup [fn : {"computeHash"}, cs : HashCollections]

InitHash == InitCall(HashCalls)

\* c.hash() of two containers
callContainerHash ==
  /\ arg.fn = "Container.hash" /\ res = NoCall
  /\ res' = <<ContainerHash(arg.cs[1]), ContainerHash(arg.cs[2])>>
  /\ UNCHANGED <<runVars, arg>>

\* computeHash(cs)
callComputeHash ==
  /\ arg.fn = "computeHash" /\ res = NoCall
  /\ res' = <<computeHash(arg.cs)>>
  /\ UNCHANGED <<runVars, arg>>

NextHash == callContainerHash \/ callComputeHash

SpecHash == InitHash /\ [][NextHash]_vars

\* the filters that are composed, and the containers they are called with
SomeFilters ==
  {StateEquals(sRunning), StateEquals(sExited), LabelExists(sWeb),
   LabelEquals(sWeb, <<49>>), Not(LabelExists(sA)), Any(<<>>)}
FilterContainers ==
  {Ctr(sA, sA, sRunning, Mk([k \in {sWeb} |-> <<49>>]), GoNil, GoNil),
   Ctr(sA, sA, sExited, Mk([k \in {sWeb, sA} |-> IF k = sWeb THEN <<>> ELSE sB]),
       GoNil, GoNil),
   Ctr(sB, sB, sRunning, Mk(<<>>), GoNil, GoNil),
   Ctr(sB, sB, sExited, GoNil, GoNil, GoNil)}

\* the largest number of filters All and Any are given
MaxFilters == 2

FilterLists == UNION {[1..n -> SomeFilters] : n \in 0..MaxFilters}

FilterCalls ==
  [fn : {"All", "Any"}, fs : FilterLists, c : FilterContainers]
    \cup [fn : {"Not"}, f : SomeFilters, c : FilterContainers]
    \cup [fn : {"LabelEquals"}, key : {sWeb, sA}, value : {<<>>, <<49>>, sB},
          c : FilterContainers]

InitFilter == InitCall(FilterCalls)

\* All(fs...)(c)
callAll ==
  /\ arg.fn = "All" /\ res = NoCall
  /\ res' = <<Apply(All(arg.fs), arg.c)>>
  /\ UNCHANGED <<runVars, arg>>

\* Any(fs...)(c)
callAny ==
  /\ arg.fn = "Any" /\ res = NoCall
  /\ res' = <<Apply(Any(arg.fs), arg.c)>>
  /\ UNCHANGED <<runVars, arg>>

\* Not(f)(c) and Not(Not(f))(c)
callNot ==
  /\ arg.fn = "Not" /\ res = NoCall
  /\ res' = <<Apply(Not(arg.f), arg.c), Apply(Not(Not(arg.f)), arg.c)>>
  /\ UNCHANGED <<runVars, arg>>

\* LabelEquals(key, value)(c)
callLabelEquals ==
  /\ arg.fn = "LabelEquals" /\ res = NoCall
  /\ res' = <<Apply(LabelEquals(arg.key, arg.value), arg.c)>>
  /\ UNCHANGED <<runVars, arg>>

NextFilter == callAll \/ callAny \/ callNot \/ callLabelEquals

SpecFilter == InitFilter /\ [][NextFilter]_vars

----------------------------------------------------------------------------
(* What the claims speak of                                                *)

D == timing.debounce
M == timing.maxDebounceTime
I == timing.maxIdleTime

\* the containers the callback is to receive under filter f of reg, a
\* registry or what a pull read of the client: those listed whose inspection
\* succeeds and which f accepts, in the order of the listing
Accepted(reg, f) ==
  LET Takes(x) == /\ x.ID \notin reg.inspectErr
                  /\ f = NilFilter \/ Apply(f, convertContainer(x))
      taken == SelectSeq(reg.inspects, Takes)
  IN  [i \in DOMAIN taken |-> convertContainer(taken[i])]

\* the digest of these
Digest(reg, f) == computeHash(Accepted(reg, f))

\* s is a permutation of t
IsPerm(s, t) ==
  /\ Len(s) = Len(t)
  /\ \A i \in DOMAIN s :
       Cardinality({j \in DOMAIN s : s[j] = s[i]}) =
       Cardinality({j \in DOMAIN t : t[j] = s[i]})

\* the last step ended a refresh that ended a burst of arrivals; an
\* arrival is counted from the instant the loop takes it from the stream,
\* a refresh from the instant its case is taken
Closed == pulled # "none" /\ win.open >= 0

\* the offset of the last arrival of window w
LastArr(w) == CHOOSE a \in w.arrs : \A b \in w.arrs : b <= a

\* every arrival of window w but the first came less than d after the
\* previous one
Tight(w, d) == \A a \in w.arrs \ {0} : \E b \in w.arrs : b < a /\ a - b < d

Min(a, b) == IF a < b THEN a ELSE b

RECURSIVE Pow2(_)
Pow2(n) == IF n <= 0 THEN 1 ELSE 2 * Pow2(n - 1)

----------------------------------------------------------------------------
(* The claims                                                              *)

\* C1: after a gather whose pull succeeded, the callback was invoked if and
\* only if the cursor was unset or the digest of the filtered set of what
\* the pull read differs from it, and the cursor is then that digest; a
\* filtered set that is a permutation of the one last delivered is not
\* delivered again.
C1_DedupByDigest ==
  pulled = "ok" =>
    /\ called <=> (last.cursor.nil \/ Digest(last.view, filter) # last.cursor.v)
    /\ previousHash = HashPtr(Digest(last.view, filter))
    /\ ((~last.reg.nil) /\ IsPerm(Accepted(last.view, filter),
                                  Accepted(last.reg, filter))) => ~called

\* a refresh that reads the containers in another order invokes no callback
C1_Witness ==
  /\ pulled = "ok" /\ ~called
  /\ ~last.reg.nil
  /\ Len(Accepted(last.view, filter)) = 2
  /\ Accepted(last.view, filter) # Accepted(last.reg, filter)
  /\ IsPerm(Accepted(last.view, filter), Accepted(last.reg, filter))

\* C2, as stated: the successful initial pull of every session invokes the
\* callback.
C2_InitialAlwaysCalls ==
  (last.cause = "initial" /\ pulled = "ok") => called

\* C2, amended: the successful initial pull of the first session invokes the
\* callback; that of a later session invokes it if and only if nothing was
\* delivered before or the digest differs from that of the set last delivered.
C2_InitialCallsUnlessSame ==
  (last.cause = "initial" /\ pulled = "ok") =>
    /\ session = 1 => called
    /\ called <=> (last.reg.nil
                   \/ Digest(last.view, filter) # Digest(last.reg, filter))

\* the initial pull of a session started by a reconnect delivers a registry
\* that changed since the last delivery
C2_Witness ==
  /\ last.cause = "initial" /\ pulled = "ok" /\ called
  /\ session = 2 /\ (~last.reg.nil) /\ ~reconnect.nil

\* C3: while arrivals wait for a refresh, no more than D has passed since the
\* last of them; and when each arrival came less than D after the previous
\* one, and neither M (counted from the first) nor I is reached before D has
\* passed since the last, the burst is ended by the debounce timer exactly D
\* after the last arrival.
C3_DebounceAfterLast ==
  /\ (pc = "loop" /\ pulled = "none" /\ win.open >= 0) =>
       (waiting /\ win.open <= LastArr(win) + D)
  /\ (Closed /\ Tight(win, D) /\ LastArr(win) + D < M /\ D < I) =>
       (last.cause = "debounce" /\ last.waiting /\ win.open = LastArr(win) + D)

\* a burst of two arrivals is refreshed D after the second
C3_Witness ==
  /\ Closed /\ Tight(win, D) /\ LastArr(win) + D < M /\ D < I
  /\ Cardinality(win.arrs) = 2 /\ LastArr(win) > 0
  /\ last.cause = "debounce" /\ win.open = LastArr(win) + D

\* C4, as stated: arrivals at 0, D/2 and D are refreshed at 1.5 * D.
C4_RefreshAtOneAndAHalfD ==
  (Closed /\ D % 2 = 0 /\ win.arrs = {0, D \div 2, D} /\ 2 * D < M /\ D < I) =>
    2 * win.open = 3 * D

\* C4, amended: arrivals at 0, D/2 and D are refreshed once, by the debounce
\* timer, at 2 * D, which is D after the last of them.
C4_RefreshAtTwoD ==
  (Closed /\ D % 2 = 0 /\ win.arrs = {0, D \div 2, D} /\ 2 * D < M /\ D < I) =>
    (last.cause = "debounce" /\ win.open = 2 * D)

\* arrivals at 0, D/2 and D, and the refresh
C4_Witness ==
  /\ Closed /\ D % 2 = 0 /\ win.arrs = {0, D \div 2, D} /\ 2 * D < M /\ D < I
  /\ pulled = "ok" /\ win.open = 2 * D

\* C5, as stated: a burst whose arrivals come less than D apart, and which
\* is refreshed less than D after the last of them, is refreshed by the
\* max-debounce timer exactly M after its first arrival.
C5_RefreshAtM ==
  (Closed /\ Tight(win, D) /\ win.open - LastArr(win) < D) =>
    (last.cause = "maxDebounce" /\ win.open = M)

\* C5, amended: no burst waits longer than M for its refresh; and when the
\* arrivals come less than D and less than I apart, and the refresh comes
\* less than D and less than I after the last of them, it is the max-debounce
\* timer's, exactly M after the first arrival.
C5_RefreshAtMUnlessIdle ==
  /\ (pc = "loop" /\ pulled = "none" /\ win.open >= 0) => (waiting /\ win.open <= M)
  /\ (Closed /\ Tight(win, Min(D, I)) /\ win.open - LastArr(win) < Min(D, I)) =>
       (last.cause = "maxDebounce" /\ win.open = M)

\* arrivals at every tick up to M, and the refresh at M
C5_Witness ==
  /\ Closed /\ Tight(win, Min(D, I)) /\ win.open - LastArr(win) < Min(D, I)
  /\ Cardinality(win.arrs) >= M
  /\ last.cause = "maxDebounce" /\ win.open = M /\ debounceTimer = Stopped

\* C6, as stated: when I has passed since the last arrival, or since the
\* initial pull when there was none, the idle timer fires.
C6_IdleAfterLastArrival ==
  (pc = "loop" /\ (sinceArr = I \/ (sinceArr < 0 /\ sinceRefresh = I))) =>
    (idleTicker = 0 \/ last.cause = "idle")

\* C6, amended: the idle timer fires when I has passed since the latest of
\* the initial pull, the last arrival and the last refresh, and only then.
C6_IdleAfterQuiet ==
  /\ pc = "loop" => (Quiet <= I /\ (Quiet = I <=> idleTicker = 0))
  /\ last.cause = "idle" => last.quiet = I

\* an idle refresh I after the debounce refresh of an arrival
C6_Witness ==
  /\ last.cause = "idle" /\ pulled = "ok" /\ last.quiet = I
  /\ sinceArr = D + I

\* C7: once the registry and the stream have stopped changing, the cursor
\* is, from some refresh on, the digest of the registry's filtered set, and
\* the set last delivered is that set up to the order.
C7_FinalStateDelivered ==
  <>[](/\ previousHash = HashPtr(Digest(RegOf(registry), filter))
       /\ ~deliveredReg.nil
       /\ IsPerm(Accepted(deliveredReg, filter),
                 Accepted(RegOf(registry), filter)))

\* the idle timer delivers the last change, of which no notification came
C7_Witness ==
  /\ budget = 0 /\ pulled = "ok" /\ called /\ last.cause = "idle"
  /\ (~last.reg.nil) /\ last.reg # last.view
  /\ previousHash = HashPtr(Digest(RegOf(registry), filter))

\* C8: a refresh whose pull reads, of the containers the filter accepts,
\* those last delivered invokes no callback, whatever else changed.
C8_FilterBeforeDedup ==
  (pulled = "ok" /\ (~last.reg.nil)
     /\ Accepted(last.view, filter) = Accepted(last.reg, filter)) =>
    ~called

\* a container the filter rejects changed, and the refresh is silent
C8_Witness ==
  /\ pulled = "ok" /\ ~called /\ (~last.reg.nil) /\ filter # NilFilter
  /\ Accepted(last.view, filter) = Accepted(last.reg, filter)
  /\ Accepted(last.view, NilFilter) # Accepted(last.reg, NilFilter)
  /\ last.view.inspectErr = {} /\ last.reg.inspectErr = {}

\* C9: the callback receives the listed containers whose inspection
\* succeeded and which the filter accepts, in the order of the listing.
C9_CallbackSequence ==
  called => delivered = Accepted(last.view, filter)

\* two containers are delivered in the order of the listing, each as it
\* was when it was inspected: the registry changed between the two
\* inspections, and at no time held the two as they are delivered
C9_Witness ==
  /\ called /\ Len(delivered) = 2 /\ delivered[1].ID = sA /\ delivered[2].ID = sB
  /\ \A n \in DataRegs : delivered # Accepted(RegOf(n), filter)

\* C10: without reconnect, a failed pull and an error of the stream end the
\* session with an error that wraps the one received, Run returns what the
\* session returned, and no gather follows.
C10_ErrorEndsRun ==
  [][reconnect.nil =>
       /\ pulled' = "fail" =>
            (pc' = "returned" /\ listErr # NilErr /\ err'.cause = listErr.msg)
       /\ (pc = "loop" /\ errCh # <<>> /\ errCh' # errCh /\ Head(errCh) # NilErr) =>
            (pc' = "returned" /\ err'.cause = Head(errCh).msg)
       /\ (pc = "returned" /\ pc' # pc) => (pc' = "done" /\ result' = err)
       /\ pc \in {"returned", "done"} =>
            (pulled' = "none" /\ ~called' /\ pc' \notin {"gather", "loop"})
     ]_vars

\* Run has returned the error of a pull
C10_Witness ==
  /\ reconnect.nil /\ pc = "done"
  /\ result = Wrap("failed to refresh containers", ApiDown)

\* C11: with MaxRetries = N > 0, Run returns for another reason than
\* cancellation only when failure N + 1 in a row is counted, and it returns
\* what the last session returned; when no session lasted a Minute, N + 1
\* sessions were run.
C11_ExhaustedAfterNPlusOne ==
  (~reconnect.nil /\ reconnect.MaxRetries > 0 /\ pc = "done" /\ ~ctxDone) =>
    /\ result = err
    /\ attempt = reconnect.MaxRetries + 1
    /\ session >= reconnect.MaxRetries + 1
    /\ ~stableSeen => session = reconnect.MaxRetries + 1

\* three sessions failed at once, and Run returned the error of the third
C11_Witness ==
  /\ ~reconnect.nil /\ reconnect.MaxRetries = 2 /\ pc = "done" /\ ~ctxDone
  /\ ~stableSeen /\ session = 3 /\ session < MaxSessions
  /\ result = Wrap("failed to refresh containers", ApiDown)

\* C12: with MaxRetries = 0, a session that ended while the context is not
\* cancelled is followed by the backoff wait, the wait by another session,
\* and Run returns only the cancellation error of a cancelled context.
C12_UnlimitedRetries ==
  [][(~reconnect.nil /\ reconnect.MaxRetries = 0) =>
       /\ (pc = "returned" /\ ~ctxDone /\ pc' # pc) => pc' = "backoff"
       /\ (pc = "backoff" /\ ~ctxDone /\ pc' # pc) => pc' = "runOnce"
       /\ pc' = "done" => (ctxDone' /\ result' = Canceled)
    ]_vars

\* a fourth session runs after three failures
C12_Witness ==
  /\ ~reconnect.nil /\ reconnect.MaxRetries = 0 /\ ~ctxDone
  /\ attempt >= 3 /\ session >= 4 /\ pc = "loop"

\* C13: with MinDelay <= MaxDelay, the wait that follows failure k in a row
\* (the value of the attempt counter) lasts min(MinDelay * 2^(k-1), MaxDelay).
C13_BackoffDoubles ==
  [][(pc' = "backoff" /\ reconnect.MinDelay <= reconnect.MaxDelay) =>
       /\ delay' = Min(reconnect.MinDelay * Pow2(attempt' - 1), reconnect.MaxDelay)
       /\ pc = "returned" => after' = delay'
       /\ after' <= delay'
    ]_vars

\* the third wait in a row is capped at MaxDelay, below four times MinDelay
C13_Witness ==
  /\ pc = "backoff" /\ attempt = 3 /\ ~stableSeen
  /\ reconnect.MinDelay = 1 /\ reconnect.MaxDelay = 3
  /\ delay = 3 /\ after = 3

\* C14: no wait before a reconnect is longer than MaxDelay.
C14_WaitAtMostMaxDelay ==
  (~reconnect.nil /\ pc = "backoff") => after <= reconnect.MaxDelay

\* C15: when a session that lasted a Minute or more has failed, the failure
\* is counted as attempt 1, the wait that follows is MinDelay, and Run does
\* not give up.
C15_StableSessionResets ==
  [][(~reconnect.nil /\ pc = "returned" /\ ~ctxDone /\ elapsed >= Minute /\ pc' # pc) =>
       /\ attempt' = 1
       /\ delay' = reconnect.MinDelay /\ after' = reconnect.MinDelay
       /\ pc' = "backoff"
    ]_vars

\* with MaxRetries = 2, a fourth session has failed after a Minute, and the
\* wait is MinDelay again
C15_Witness ==
  /\ ~reconnect.nil /\ reconnect.MaxRetries = 2 /\ reconnect.MinDelay < reconnect.MaxDelay
  /\ session >= 4 /\ pc = "backoff" /\ elapsed >= Minute
  /\ attempt = 1 /\ delay = reconnect.MinDelay /\ after = delay

\* C16: once the context is cancelled, a session that leaves its select
\* returns the cancellation error, which Run returns when there is no
\* reconnect; and with reconnect Run returns the cancellation error.
C16_CancelWins ==
  [][/\ (reconnect.nil /\ ctxDone /\ pc = "loop" /\ pc' = "returned") => err' = Canceled
     /\ (~reconnect.nil /\ ctxDone /\ pc # "done" /\ pc' = "done") => result' = Canceled
    ]_vars

\* C17: with reconnect, a session that has ended while the context is
\* cancelled, and a cancellation during the backoff wait, make Run return
\* the cancellation error; no attempt is counted and no session is started.
C17_CancelNotRetried ==
  [][~reconnect.nil =>
       /\ (ctxDone /\ pc = "returned" /\ pc' # pc) =>
            (pc' = "done" /\ result' = Canceled /\ attempt' = attempt /\ delay' = delay)
       /\ (ctxDone /\ pc = "backoff" /\ after > 0 /\ pc' # pc) =>
            (pc' = "done" /\ result' = Canceled /\ attempt' = attempt /\ session' = session)
       /\ (ctxDone' /\ pc' = "done") => result' = Canceled
    ]_vars

\* Run has returned the cancellation error after a session that lost its
\* stream
C17_Witness ==
  /\ ~reconnect.nil /\ pc = "done" /\ ctxDone /\ result = Canceled
  /\ err = Wrap("failed to stream events", StreamLost) /\ attempt = 1

\* C18: an attempt that is about to begin while the context is cancelled
\* opens no subscription, pulls nothing and invokes no callback.
C18_CheckedBeforeAttempt ==
  [][(ctxDone /\ pc = "runOnce") =>
       (pc' # "initial" /\ subs' = subs /\ pulled' = "none" /\ ~called')
    ]_vars

\* C19: when a session has ended with an error, its three timers are
\* stopped and its subscription is released before Run goes on, and no two
\* subscriptions are open at a time.
C19_CleanUnwind ==
  /\ (pc \in {"returned", "backoff", "done"} /\ err # NilErr) =>
       /\ debounceTimer = Stopped /\ maxDebounceTimer = Stopped /\ idleTicker = Stopped
       /\ subs = 0
  /\ subs <= 1

\* C20: while the handler of a trigger is under way (its gather with the
\* callback, up to the end of its case) no other trigger is taken: no arrival
\* and no end of the stream is received, no timer is received or armed, no
\* other gather begins, and the session neither ends but by this gather nor
\* is followed by another; from the dedup of a gather to the end of its case
\* no callback is invoked and the cursor stays; and a session starts only
\* from the supervisor, when the session before it has returned.
C20_OneAtATime ==
  [][/\ pc = "gather" =>
          /\ eventCh' >= eventCh /\ Len(errCh') >= Len(errCh)
          /\ g' = NoPull \/ (g'.cause = g.cause /\ (g'.step = "list" => g.step = "list"))
          /\ pc' \in {"gather", "loop", "returned"}
          /\ pc' = "loop" => (g.step = "tail" /\ g' = NoPull)
          /\ pc' = "returned" => (g.step = "list" /\ g' = NoPull)
          /\ pc' = "gather" =>
               /\ g' # NoPull
               /\ debounceTimer' \in {debounceTimer, Less(debounceTimer)}
               /\ maxDebounceTimer' \in {maxDebounceTimer, Less(maxDebounceTimer)}
               /\ idleTicker' \in {idleTicker, Less(idleTicker)}
               /\ waiting' = waiting
     /\ (pc = "gather" /\ g.step = "tail") =>
          /\ previousHash' = previousHash
          /\ g' = NoPull \/ g' = [g EXCEPT !.ticks = g'.ticks]
     /\ (g'.step = "tail" /\ g.step # "tail") =>
          (pc = "gather" /\ g.step = "dedup" /\ pc' = "gather")
     /\ pc \in {"initial", "gather", "loop"} =>
          (session' = session /\ subs' <= subs
             /\ pc' \in {"initial", "gather", "loop", "returned"})
     /\ (pc' = "initial" /\ pc # "initial") => pc = "runOnce"
     /\ (pc' = "runOnce" /\ pc # "runOnce") => pc \in {"run", "backoff"}
     /\ (pc' = "backoff" /\ pc # "backoff") => pc = "returned"
    ]_vars

\* in a later session the callback of a debounced refresh is running while
\* an arrival is queued, the stream has ended and the max-debounce timer is
\* due
C20_Witness ==
  /\ pc = "gather" /\ g.cause = "debounce" /\ g.step = "tail" /\ g.called
  /\ session >= 2 /\ eventCh > 0 /\ errCh # <<>> /\ maxDebounceTimer = 0

\* C21: a pull fails exactly when the listing call fails, and a failed pull
\* ends the session with an error that wraps the listing's; when inspections
\* fail, the callback receives exactly the listed containers whose own
\* inspection succeeded and which the filter accepts.
C21_InspectFailureSkipsOne ==
  [][/\ pulled' = "fail" <=>
          (pc = "gather" /\ g.step = "list" /\ listErr # NilErr
             /\ (pc' # pc \/ g'.step # g.step))
     /\ pulled' = "fail" => (~called' /\ pc' = "returned" /\ err'.cause = listErr.msg)
     /\ called' =>
          {delivered'[i].ID : i \in DOMAIN delivered'} =
          {x.ID : x \in {y \in {last'.view.inspects[j] :
                                  j \in DOMAIN last'.view.inspects} :
                           /\ y.ID \notin last'.view.inspectErr
                           /\ filter = NilFilter \/ Apply(filter, convertContainer(y))}}
    ]_vars

\* the inspection of b failed, and the callback received a alone
C21_Witness ==
  /\ pulled = "ok" /\ called /\ filter = NilFilter
  /\ last.view.inspectErr = {sB} /\ Len(last.view.summaries) = 2
  /\ Len(delivered) = 1 /\ delivered[1].ID = sA

\* the orders in which the elements of s can stand
Perms(s) == {t \in [DOMAIN s -> {s[i] : i \in DOMAIN s}] : IsPerm(t, s)}

\* container c with the aliases of its j-th network in the order a
WithAliases(c, j, a) == [c EXCEPT !.Networks.v[j].Aliases.v = a]

\* C22: the digest of a container is the same for every order in which its
\* label entries are visited, for every order of its Networks and of its
\* Ports and for every order of the Aliases of each network, and the digest
\* of a collection is the same for every order of its containers.
C22_OrderInsensitive ==
  res # NoCall =>
    /\ arg.fn = "Container.hash" =>
         \A i \in DOMAIN arg.cs :
           /\ \A visit \in Perms(sortedKeys(DOMAIN arg.cs[i].Labels.v)) :
                hashVisiting(arg.cs[i], visit) = res[i]
           /\ \A ns \in Perms(arg.cs[i].Networks.v) :
                ContainerHash([arg.cs[i] EXCEPT !.Networks.v = ns]) = res[i]
           /\ \A ps \in Perms(arg.cs[i].Ports.v) :
                ContainerHash([arg.cs[i] EXCEPT !.Ports.v = ps]) = res[i]
           /\ \A j \in DOMAIN arg.cs[i].Networks.v :
                \A a \in Perms(arg.cs[i].Networks.v[j].Aliases.v) :
                  ContainerHash(WithAliases(arg.cs[i], j, a)) = res[i]
    /\ arg.fn = "computeHash" =>
         \A cs \in Perms(arg.cs) : computeHash(cs) = res[1]

\* a container with two labels, two networks, three aliases and two ports
\* was hashed
C22_Witness ==
  /\ res # NoCall /\ arg.fn = "Container.hash"
  /\ len(arg.cs[1].Labels) = 2 /\ len(arg.cs[1].Networks) = 2
  /\ len(arg.cs[1].Ports) = 2 /\ len(arg.cs[1].Networks.v[1].Aliases) = 3
  /\ arg.cs[1].Networks.v[1] # arg.cs[1].Networks.v[2]
  /\ arg.cs[1].Ports.v[1] # arg.cs[1].Ports.v[2]

\* the networks of c, the aliases of each in sorted order
SortedNetworks(c) ==
  [j \in DOMAIN c.Networks.v |->
     [c.Networks.v[j] EXCEPT !.Aliases = Mk(sortStrings(c.Networks.v[j].Aliases.v))]]

\* c and d agree in every meaningful field: the four strings, the label
\* entries, the network attachments and the port mappings, whatever the
\* order of the slices and whether an empty collection is nil
SameFields(c, d) ==
  /\ c.ID = d.ID /\ c.Name = d.Name /\ c.Image = d.Image /\ c.State = d.State
  /\ c.Labels.v = d.Labels.v
  /\ IsPerm(SortedNetworks(c), SortedNetworks(d))
  /\ IsPerm(c.Ports.v, d.Ports.v)

\* C23: two containers that differ in a meaningful field have different
\* digests.
C23_DistinctDigests ==
  (res # NoCall /\ arg.fn = "Container.hash" /\ ~SameFields(arg.cs[1], arg.cs[2])) =>
    res[1] # res[2]

\* slice or map x, as e when it has no element
Blank(x, e) == IF len(x) = 0 THEN e ELSE x

\* container c, each of its collections that has no element being e
Blanked(c, e) ==
  [c EXCEPT !.Labels = Blank(@, e), !.Ports = Blank(@, e),
            !.Networks = IF len(@) = 0 THEN e
                         ELSE Mk([j \in DOMAIN @.v |->
                                    [@.v[j] EXCEPT !.Aliases = Blank(@, e)]])]

\* C24: a container hashes the same whether its Labels, Networks and Ports
\* and the Aliases of its networks, where they have no element, are nil or
\* empty.
C24_NilAsEmpty ==
  (res # NoCall /\ arg.fn = "Container.hash") =>
    \A i \in DOMAIN arg.cs :
      /\ ContainerHash(Blanked(arg.cs[i], GoNil)) = res[i]
      /\ ContainerHash(Blanked(arg.cs[i], Mk(<<>>))) = res[i]

\* a container without labels and ports, its one network without aliases,
\* was hashed, and so was one with no element in any collection
C24_Witness ==
  /\ res # NoCall /\ arg.fn = "Container.hash"
  /\ len(arg.cs[1].Labels) = 0 /\ len(arg.cs[1].Ports) = 0
  /\ len(arg.cs[1].Networks) = 1 /\ len(arg.cs[1].Networks.v[1].Aliases) = 0
  /\ Blanked(arg.cs[1], GoNil) # Blanked(arg.cs[1], Mk(<<>>))
  /\ len(arg.cs[2].Networks) = 0 /\ len(arg.cs[2].Labels) = 0 /\ len(arg.cs[2].Ports) = 0
  /\ ~arg.cs[2].Networks.nil /\ ~arg.cs[2].Labels.nil /\ ~arg.cs[2].Ports.nil

\* C25: All of a list of filters accepts a container exactly when each of
\* them does, Any exactly when one of them does (so All of none accepts and
\* Any of none rejects), Not(f) exactly when f does not, and Not(Not(f))
\* exactly when f does.
C25_FilterAlgebra ==
  res # NoCall =>
    /\ arg.fn = "All" => (res[1] <=> \A i \in DOMAIN arg.fs : Apply(arg.fs[i], arg.c))
    /\ arg.fn = "Any" => (res[1] <=> \E i \in DOMAIN arg.fs : Apply(arg.fs[i], arg.c))
    /\ arg.fn = "Not" => /\ res[1] <=> ~Apply(arg.f, arg.c)
                         /\ res[2] <=> Apply(arg.f, arg.c)

\* All was called with two filters of which the first accepts and the
\* second rejects
C25_Witness ==
  /\ res # NoCall /\ arg.fn = "All" /\ Len(arg.fs) = 2
  /\ Apply(arg.fs[1], arg.c) /\ ~Apply(arg.fs[2], arg.c) /\ ~res[1]

\* C26: LabelEquals(key, value) accepts a container exactly when its labels
\* hold key with the value value; it accepts none whose labels lack key.
C26_LabelEqualsNeedsKey ==
  (res # NoCall /\ arg.fn = "LabelEquals") =>
    (res[1] <=> /\ len(arg.c.Labels) > 0
                /\ arg.key \in DOMAIN arg.c.Labels.v
                /\ arg.c.Labels.v[arg.key] = arg.value)

\* C27: when a gather invokes the callback, the cursor holds the digest of
\* the containers delivered from the start of the callback on; and a gather
\* that finds the set whose digest the cursor holds invokes no callback.
C27_CursorSetBeforeCallback ==
  [][/\ called' => /\ last'.atCall = HashPtr(computeHash(delivered'))
                   /\ previousHash' = last'.atCall
     /\ (pulled' = "ok" /\ last'.cursor = HashPtr(Digest(last'.view, filter))) =>
          (~called' /\ previousHash' = last'.cursor)]_vars

\* a refresh found a changed set: the cursor had moved when the callback
\* started
C27_Witness ==
  /\ called /\ last.cause # "initial" /\ Len(delivered) >= 1
  /\ ~last.cursor.nil /\ last.cursor # last.atCall /\ last.atCall = previousHash

\* C28: an arrival taken while the gate is Pending restarts the debounce
\* timer and the idle ticker, leaves the max-debounce timer as it was, the
\* deadline still being M after the opening of the window, and leaves the
\* gate Pending.
C28_ArrivalKeepsMaxDeadline ==
  [][(pc = "loop" /\ waiting /\ eventCh' < eventCh /\ pc' = "loop") =>
       /\ debounceTimer' = D /\ idleTicker' = I
       /\ maxDebounceTimer' = maxDebounceTimer
       /\ maxDebounceTimer' = M - win'.open
       /\ waiting']_vars

\* a second arrival came into a window that had been open for a while
C28_Witness ==
  /\ pc = "loop" /\ waiting /\ pulled = "none"
  /\ Cardinality(win.arrs) >= 2 /\ sinceArr = 0 /\ win.open > 0
  /\ debounceTimer = D /\ maxDebounceTimer = M - win.open /\ maxDebounceTimer < M

\* C29: a refresh by the debounce timer or by the max-debounce timer happens
\* only while the gate is Pending, and leaves both timers cancelled and the
\* gate Idle; while the gate is Idle neither timer is armed.
C29_OneRefreshPerWindow ==
  [][/\ (pulled' = "ok" /\ last'.cause \in {"debounce", "maxDebounce"}) =>
          /\ last'.waiting /\ waiting /\ ~waiting' /\ pc' = "loop"
          /\ debounceTimer' = Stopped /\ maxDebounceTimer' = Stopped
     /\ (pc' = "loop" /\ ~waiting') =>
          (debounceTimer' = Stopped /\ maxDebounceTimer' = Stopped)]_vars

\* both deadlines fell at the same instant: the debounce timer refreshed,
\* and the max-debounce timer is cancelled
C29_Witness ==
  /\ pc = "loop" /\ Closed /\ last.cause = "debounce" /\ last.waiting
  /\ win.open = M /\ win.open - LastArr(win) = D
  /\ ~waiting /\ debounceTimer = Stopped /\ maxDebounceTimer = Stopped

\* C30: a refresh by the idle ticker while the gate is Pending leaves both
\* timers cancelled and the gate Idle, and every refresh by the debounce
\* timer or the max-debounce timer has an arrival since the refresh before it.
C30_IdleClosesWindow ==
  [][/\ (pulled' = "ok" /\ last'.cause = "idle" /\ last'.waiting) =>
          /\ waiting /\ ~waiting' /\ pc' = "loop"
          /\ debounceTimer' = Stopped /\ maxDebounceTimer' = Stopped
     /\ last'.cause \in {"debounce", "maxDebounce"} => win'.open >= 0]_vars

\* the idle ticker fired while a window was open
C30_Witness ==
  /\ pc = "loop" /\ Closed /\ last.cause = "idle" /\ last.waiting /\ pulled = "ok"
  /\ ~waiting /\ debounceTimer = Stopped /\ maxDebounceTimer = Stopped

\* C31: every session opens its subscription, then pulls, whatever the
\* dedup cursor holds, and enters its loop and takes arrivals only after that
\* pull; an arrival queued during the pull is still queued after it, and
\* taking it opens a window.
C31_SubscribeThenPullThenArrivals ==
  [][/\ (pc = "runOnce" /\ pc' # pc) => (pc' = "initial" /\ pulled' = "none")
     /\ (pc = "initial" /\ pc' # pc) =>
          (pc' = "gather" /\ g'.cause = "initial" /\ g'.step = "list")
     /\ (g'.cause = "initial" \/ last'.cause = "initial") =>
          (pc = "initial" \/ (pc = "gather" /\ g.cause = "initial"))
     /\ (pc' = "loop" /\ pc # "loop") => (pc = "gather" /\ pulled' = "ok")
     /\ (pc = "initial" \/ (pc = "gather" /\ g.cause = "initial")) =>
          eventCh' >= eventCh
     /\ eventCh' < eventCh =>
          (pc = "loop" /\ pc' = "loop" /\ waiting' /\ debounceTimer' = D
             /\ win'.open >= 0)]_vars

\* in a later session, whose cursor is set, an arrival that came while the
\* initial pull took its time is queued when the loop starts
C31_Witness ==
  /\ session >= 2 /\ last.cursor # NilHash
  /\ pc = "loop" /\ last.cause = "initial" /\ pulled = "ok" /\ last.ticks > 0
  /\ eventCh > 0 /\ sinceArr < 0 /\ ~waiting

\* C32: a gather whose pull fails leaves the cursor as it was and invokes no
\* callback, and a gather that invokes no callback because the digest is the
\* cursor's leaves the cursor as it was.
C32_CursorKeptOnFailure ==
  [][/\ pulled' = "fail" =>
          (previousHash' = previousHash /\ previousHash' = last'.cursor /\ ~called')
     /\ (pulled' = "ok" /\ ~called') =>
          (previousHash' = last'.cursor
             /\ last'.cursor = HashPtr(Digest(last'.view, filter)))]_vars

\* a refresh failed after a delivery: the cursor still holds the digest
\* delivered
C32_Witness ==
  /\ pulled = "fail" /\ ~called /\ last.cause # "initial"
  /\ ~previousHash.nil /\ previousHash = last.cursor /\ ~deliveredReg.nil

\* C33: whenever Run is at the select of the loop, the gate is Pending
\* exactly when the debounce timer and the max-debounce timer are both
\* armed, and when it is Idle neither of them is.
C33_PendingIffArmed ==
  pc = "loop" =>
    /\ waiting <=> (debounceTimer # Stopped /\ maxDebounceTimer # Stopped)
    /\ ~waiting => (debounceTimer = Stopped /\ maxDebounceTimer = Stopped)

\* the gate is Pending with both timers running, the debounce timer
\* restarted since the window opened
C33_Witness ==
  /\ pc = "loop" /\ waiting /\ pulled = "none"
  /\ debounceTimer > 0 /\ maxDebounceTimer > 0
  /\ maxDebounceTimer - debounceTimer < M - D

\* C34: at the select of the loop no more than I + M has passed since the
\* last refresh, a window has been open for no more than M, and a refresh by
\* the debounce or the max-debounce timer leaves the idle ticker a full
\* period to run.
C34_RefreshWithinIPlusM ==
  pc = "loop" =>
    /\ timing.pull = 0 => sinceRefresh <= I + M
    /\ waiting => (Window.open >= 0 /\ Window.open <= M)
    /\ (pulled # "none" /\ last.cause \in {"debounce", "maxDebounce"}) => idleTicker = I

\* I + M after the last refresh: the window opened as the idle ticker came
\* due, and arrivals kept it open until the max-debounce timer came due
C34_Witness ==
  /\ pc = "loop" /\ waiting /\ pulled = "none" /\ timing.pull = 0
  /\ sinceRefresh = I + M /\ win.open = M /\ maxDebounceTimer = 0

\* C35: when D < I, the idle ticker has more to run than the debounce timer
\* whenever the gate is Pending, every refresh by the idle ticker finds the
\* gate Idle, and every refresh that ends a window is by the debounce or
\* the max-debounce timer.
C35_IdleOnlyInIdle ==
  D < I =>
    /\ (pc = "loop" /\ waiting) => idleTicker > debounceTimer
    /\ (pulled # "none" /\ last.cause = "idle") => ~last.waiting
    /\ (Closed /\ last.cause # "initial") => last.cause \in {"debounce", "maxDebounce"}

\* with D < I, the idle ticker refreshed an Idle gate after a window had
\* been closed
C35_Witness ==
  /\ D < I /\ pc = "loop" /\ pulled = "ok"
  /\ last.cause = "idle" /\ ~last.waiting /\ sinceArr >= D + I

\* C36: during one Run, reconnects included, a callback invocation carries
\* a collection whose digest differs from that of the collection of the
\* invocation before it, and every callback invocation is part of a pull
\* that succeeded, at most one for each.
C36_ConsecutiveDeliveriesDiffer ==
  called =>
    /\ pulled = "ok"
    /\ (~last.reg.nil) =>
         computeHash(delivered) # Digest(last.reg, filter)

\* a session after a reconnect delivered a collection other than the one
\* delivered before it
C36_Witness ==
  /\ called /\ session >= 2 /\ ~reconnect.nil
  /\ (~last.reg.nil) /\ last.reg # last.view /\ deliveredReg = last.view

\* C37: without reconnect, the session returns nil exactly when it received
\* a nil value from the error stream, every other return of it carries an
\* error, and Run returns what the session returned.
C37_NilOnlyOnNilFromStream ==
  [][reconnect.nil =>
       /\ (pc # "returned" /\ pc' = "returned") =>
            (err' = NilErr <=>
               (pc = "loop" /\ errCh # <<>> /\ errCh' = Tail(errCh)
                  /\ Head(errCh) = NilErr))
       /\ (pc = "returned" /\ pc' = "done") => result' = err]_vars

\* Run returned nil without reconnect, the stream having ended
C37_Witness ==
  /\ pc = "done" /\ reconnect.nil /\ result = NilErr /\ errCh = <<>> /\ session = 1

====
